---- MODULE Spec2Model ----
(***************************************************************************)
(* Model of modules/pose_estimation.py, modules/cluster.py and             *)
(* scripts/main/run_all_main.py:                                           *)
(*   Spec              the per-frame pipeline process_frame                *)
(*   SpecLengths       estimate_lengths                                    *)
(*   SpecSides         verify_sides_pass and enforce_consistency           *)
(*   SpecGetPopulation get_population                                      *)
(*   SpecParallel      process_frame on several frames at once             *)
(*   SpecMain          main() of run_all_main                              *)
(*   SpecSpheres       inside_spheres                                      *)
(*   SpecCluster       dbscan_st and grow_cluster_st                       *)
(*   FairSpecCluster   SpecCluster with weak fairness of its steps         *)
(* The specifications share the variables; each one keeps the variables of *)
(* the others at their idle values.                                        *)
(*                                                                         *)
(* A frame is a population of 3-D points with a part-type label each.      *)
(* Nodes are numbered 0..N-1 as in the code; a matrix is a function on     *)
(* pairs of nodes; a dict is a function on its keys.                       *)
(*                                                                         *)
(* The points are drawn from the corners of a 3 x 4 rectangle, so that     *)
(* every Euclidean distance (cdist) is an integer (0, 3, 4 or 5).  The     *)
(* canonical score 1 - (m/e - 1)^2 is multiplied by ScoreScale^2 to stay   *)
(* in the integers; sums and comparisons of scores are unaffected.         *)
(***************************************************************************)
EXTENDS Integers, Sequences, FiniteSets, TLC

\* ------------------------------------------------------------------ bounds
\* Largest size of a frame: the number of hypotheses plus the number of part
\* types of the label adjacency list.
MaxSize == 7
\* Largest number of part types (labels 0..K-1) of a label adjacency list.
MaxK == 3

\* ----------------------------------------------------------------- helpers
NONE == -1
INF == -1

Points == { <<0, 0, 0>>, <<3, 0, 0>>, <<0, 4, 0>> }

Sq(x) == x * x

\* Largest r with r * r <= s.
ISqrt(s) == CHOOSE r \in 0..s : r * r <= s /\ (r + 1) * (r + 1) > s

\* scipy.spatial.distance.cdist, one entry: the Euclidean distance.
distance(p, q) == ISqrt(Sq(p[1] - q[1]) + Sq(p[2] - q[2]) + Sq(p[3] - q[3]))

Max(S) == CHOOSE x \in S : \A y \in S : y <= x

Min(S) == CHOOSE x \in S : \A y \in S : x <= y

RECURSIVE SumTo(_, _, _)
\* f[lo] + ... + f[hi - 1], as sum(lengths[u:v]).
SumTo(f, lo, hi) == IF lo >= hi THEN 0 ELSE f[lo] + SumTo(f, lo + 1, hi)

RECURSIVE SumOver(_, _)
\* Sum of f over the finite set S of arguments.
SumOver(f, S) ==
    IF S = {} THEN 0
    ELSE LET x == CHOOSE y \in S : TRUE IN f[x] + SumOver(f, S \ {x})

\* The nodes with a given label, in ascending order (np.where(...)[0]).
RECURSIVE AscSeq(_)
AscSeq(S) ==
    IF S = {} THEN << >>
    ELSE LET x == Min(S) IN << x >> \o AscSeq(S \ {x})

\* A list indexed 1..n as an array indexed 0..n-1.
ToArray(s) == [i \in 0..(Len(s) - 1) |-> s[i + 1]]

\* ------------------------------------------------- cost and score functions
\* Common multiple of every expected distance the model uses (3, 4, 6, 7).
ScoreScale == 3 * 4 * 7

\* Canonical cost (m - e)^2.
cost_func(m, e) == Sq(m - e)

\* Canonical score 1 - (m/e - 1)^2, times ScoreScale^2.
score_func(m, e) == Sq(ScoreScale) - Sq((ScoreScale \div e) * (m - e))

\* ----------------------------------------------------- label adjacency list
\* lengths_to_adj_list: label_adj_list[u][v] = sum(lengths[u:v]) for every
\* connection (u, v); every label 0..last_part is a key.
lengths_to_adj_list(label_connections, lengths) ==
    LET last_part == Max({c[2] : c \in label_connections})
    IN  [u \in 0..last_part |->
            [v \in {c[2] : c \in {d \in label_connections : d[1] = u}} |->
                SumTo(lengths, u, v)]]

\* only_consecutive_labels with the test key_2 - key_1 == 1 left out.
only_consecutive_labels_all(label_adj_list) ==
    [key_1 \in DOMAIN label_adj_list |-> label_adj_list[key_1]]

\* only_consecutive_labels: every key is kept; of the entries of key_1 only
\* key_1 + 1 survives.
only_consecutive_labels(label_adj_list) ==
    [key_1 \in DOMAIN label_adj_list |->
        [key_2 \in {k \in DOMAIN label_adj_list[key_1] : k - key_1 = 1} |->
            label_adj_list[key_1][key_2]]]

\* ------------------------------------------------------------ modules.graphs
\* points_to_graph: an edge (i, j), i < j, iff L[j] - L[i] = 1 and L[i] is a
\* key of C and L[j] a key of C[L[i]]; every node is a key of the graph.  The
\* weight function is the cost function, which every caller passes.
points_to_graph(points, labs, expected_dists) ==
    [i \in DOMAIN points |->
        [j \in {v \in DOMAIN points :
                    /\ i < v
                    /\ labs[v] - labs[i] = 1
                    /\ labs[i] \in DOMAIN expected_dists
                    /\ labs[v] \in DOMAIN expected_dists[labs[i]]} |->
            cost_func(distance(points[i], points[j]),
                      expected_dists[labs[i]][labs[j]])]]

\* dist[v] + w < dist[u] with INF for +infinity.
Improves(dv, w, du) == dv # INF /\ (du = INF \/ dv + w < du)

RECURSIVE RelaxEdges(_, _, _, _)
\* Relax the outgoing edges (v, u) of v, for the targets u in targets.
RelaxEdges(st, graph, v, targets) ==
    IF targets = << >> THEN st
    ELSE LET u == Head(targets)
             w == graph[v][u]
             st2 == IF Improves(st.dist[v], w, st.dist[u])
                    THEN [prev |-> [st.prev EXCEPT ![u] = v],
                          dist |-> [st.dist EXCEPT ![u] = st.dist[v] + w]]
                    ELSE st
         IN  RelaxEdges(st2, graph, v, Tail(targets))

RECURSIVE RelaxNodes(_, _, _)
\* Visit the nodes in the given order.
RelaxNodes(st, graph, order) ==
    IF order = << >> THEN st
    ELSE LET v == Head(order)
         IN  RelaxNodes(RelaxEdges(st, graph, v, AscSeq(DOMAIN graph[v])),
                        graph, Tail(order))

\* dag_shortest_paths: dist is 0 at the sources and +infinity elsewhere, prev
\* is NONE everywhere; then the nodes are relaxed in topological order.
dag_shortest_paths(graph, order, sources) ==
    RelaxNodes([prev |-> [v \in DOMAIN graph |-> NONE],
                dist |-> [v \in DOMAIN graph |->
                              IF v \in sources THEN 0 ELSE INF]],
               graph, order)

RECURSIVE Chain(_, _)
\* The predecessor chain ending at node, source first.
Chain(prv, node) ==
    IF prv[node] = NONE THEN << node >>
    ELSE Chain(prv, prv[node]) \o << node >>

\* trace_path: the chain from the source to target; PATH_BROKEN (ok = FALSE)
\* when the chain stops at a node that is not a source.
trace_path(prv, target, sources) ==
    LET path == Chain(prv, target)
    IN  [ok |-> path[1] \in sources, path |-> path]

\* --------------------------------------------------- modules.pose_estimation
Nodes(labs) == DOMAIN labs

\* pop_shortest_paths with the label-1 nodes taken as the source nodes.
pop_shortest_paths_src(pop, labs, adj) ==
    LET pop_graph_ == points_to_graph(pop, labs, adj)
        head_nodes == {v \in Nodes(labs) : labs[v] = 1}
    IN  dag_shortest_paths(pop_graph_, AscSeq(DOMAIN pop_graph_), head_nodes)

RECURSIVE Reverse(_)
Reverse(s) == IF s = << >> THEN << >> ELSE Reverse(Tail(s)) \o << Head(s) >>

\* pop_shortest_paths visiting the nodes in descending order.
pop_shortest_paths_rev(pop, labs, adj) ==
    LET pop_graph_ == points_to_graph(pop, labs, adj)
        head_nodes == {v \in Nodes(labs) : labs[v] = 0}
    IN  dag_shortest_paths(pop_graph_, Reverse(AscSeq(DOMAIN pop_graph_)),
                           head_nodes)

\* pop_shortest_paths: the graph of the population, the head nodes (label 0)
\* as sources, the keys of the graph (0..N-1) as topological order.
pop_shortest_paths(pop, labs, adj) ==
    LET pop_graph_ == points_to_graph(pop, labs, adj)
        head_nodes == {v \in Nodes(labs) : labs[v] = 0}
    IN  dag_shortest_paths(pop_graph_, AscSeq(DOMAIN pop_graph_), head_nodes)

\* The rows of the path matrix: row i is the traced path of foot_index[i],
\* which must fill the max_label + 1 columns of the row (forward: head first).
PathRows(prv, dst, labs, forward) ==
    LET max_label == Max({labs[v] : v \in Nodes(labs)})
        foot_index == AscSeq({v \in Nodes(labs) : labs[v] = max_label})
        n_feet == Len(foot_index)
        sources == {v \in Nodes(labs) : labs[v] = 0}
        traced == [i \in 0..(n_feet - 1) |->
                       trace_path(prv, foot_index[i + 1], sources)]
        ok == \A i \in 0..(n_feet - 1) :
                  traced[i].ok /\ Len(traced[i].path) = max_label + 1
    IN  [ok |-> ok,
         path_matrix |->
             IF ok THEN [i \in 0..(n_feet - 1) |->
                            [c \in 0..max_label |->
                                traced[i].path[IF forward THEN c + 1
                                               ELSE max_label + 1 - c]]]
             ELSE << >>,
         path_dist |->
             IF ok THEN [i \in 0..(n_feet - 1) |-> dst[foot_index[i + 1]]]
             ELSE << >>]

\* paths_to_foot with every row stored foot first.
paths_to_foot_backward(prv, dst, labs) == PathRows(prv, dst, labs, FALSE)

\* paths_to_foot: one row per node of the largest label present, the path
\* from the head to that node; fails when a path cannot be traced.
paths_to_foot(prv, dst, labs) == PathRows(prv, dst, labs, TRUE)

\* get_score_matrix: the measured distances, and the score of every pair
\* whose labels are connected in the label adjacency list (0 elsewhere).
get_score_matrix(pop, labs, adj) ==
    LET dist_matrix_ == [ij \in Nodes(labs) \X Nodes(labs) |->
                            distance(pop[ij[1]], pop[ij[2]])]
    IN  [dist_matrix |-> dist_matrix_,
         score_matrix |->
             [ij \in Nodes(labs) \X Nodes(labs) |->
                 IF /\ labs[ij[1]] \in DOMAIN adj
                    /\ labs[ij[2]] \in DOMAIN adj[labs[ij[1]]]
                 THEN score_func(dist_matrix_[ij],
                                 adj[labs[ij[1]]][labs[ij[2]]])
                 ELSE 0]]

\* The index triples (i, j, k) of the loops of filter_by_path, in loop order.
RECURSIVE LoopTriples(_, _, _, _, _)
LoopTriples(n_paths, n_path_nodes, i, j, k) ==
    IF i >= n_paths THEN << >>
    ELSE IF j >= n_path_nodes THEN LoopTriples(n_paths, n_path_nodes, i + 1, 0, 0)
    ELSE IF k >= n_path_nodes THEN LoopTriples(n_paths, n_path_nodes, i, j + 1, 0)
    ELSE << << i, j, k >> >> \o LoopTriples(n_paths, n_path_nodes, i, j, k + 1)

RECURSIVE FilterLoop(_, _, _, _, _, _)
\* The body of the loops; accumulate = TRUE adds instead of assigning.
FilterLoop(filtered, input_matrix, path_matrix_, conn, triples, accumulate) ==
    IF triples = << >> THEN filtered
    ELSE LET t == Head(triples)
             j == t[2]
             k == t[3]
             a == path_matrix_[t[1]][j]
             b == path_matrix_[t[1]][k]
             next == IF k \in DOMAIN conn[j]
                     THEN [filtered EXCEPT ![<< a, b >>] =
                              IF accumulate
                              THEN @ + input_matrix[<< a, b >>]
                              ELSE input_matrix[<< a, b >>]]
                     ELSE filtered
         IN  FilterLoop(next, input_matrix, path_matrix_, conn, Tail(triples),
                        accumulate)

PathNodes(path_matrix_) ==
    IF DOMAIN path_matrix_ = {} THEN 0
    ELSE Cardinality(DOMAIN path_matrix_[0])

\* filter_by_path with filtered_matrix[a, b] += input_matrix[a, b].
filter_by_path_add(input_matrix, path_matrix_, part_connections) ==
    FilterLoop([ij \in DOMAIN input_matrix |-> 0], input_matrix, path_matrix_,
               part_connections,
               LoopTriples(Cardinality(DOMAIN path_matrix_),
                           PathNodes(path_matrix_), 0, 0, 0),
               TRUE)

\* filter_by_path that returns the input matrix as it is.
filter_by_path_copy(input_matrix, path_matrix_, part_connections) ==
    input_matrix

\* filter_by_path: zero, except the entries (path[i, j], path[i, k]) with
\* k in part_connections[j], which are copied from the input matrix.
filter_by_path(input_matrix, path_matrix_, part_connections) ==
    FilterLoop([ij \in DOMAIN input_matrix |-> 0], input_matrix, path_matrix_,
               part_connections,
               LoopTriples(Cardinality(DOMAIN path_matrix_),
                           PathNodes(path_matrix_), 0, 0, 0),
               FALSE)

RECURSIVE BoolRow(_, _, _, _, _)
\* in_spheres | (dist_matrix[i, :] <= r) from point n on, as a list.
BoolRow(in_spheres, dist_matrix_, i, r, n) ==
    IF n >= Len(in_spheres) THEN << >>
    ELSE << in_spheres[n + 1] \/ dist_matrix_[<< i, n >>] <= r >>
         \o BoolRow(in_spheres, dist_matrix_, i, r, n + 1)

RECURSIVE BoolRowStrict(_, _, _, _, _)
\* in_spheres | (dist_matrix[i, :] < r) from point n on, as a list.
BoolRowStrict(in_spheres, dist_matrix_, i, r, n) ==
    IF n >= Len(in_spheres) THEN << >>
    ELSE << in_spheres[n + 1] \/ dist_matrix_[<< i, n >>] < r >>
         \o BoolRowStrict(in_spheres, dist_matrix_, i, r, n + 1)

RECURSIVE SpheresLoop(_, _, _, _, _, _)
\* The loop over the sphere centres point_nums[c], point_nums[c + 1], ...
SpheresLoop(in_spheres, dist_matrix_, point_nums, r, c, closed) ==
    IF c \notin DOMAIN point_nums THEN in_spheres
    ELSE SpheresLoop(IF closed
                     THEN BoolRow(in_spheres, dist_matrix_, point_nums[c], r, 0)
                     ELSE BoolRowStrict(in_spheres, dist_matrix_,
                                        point_nums[c], r, 0),
                     dist_matrix_, point_nums, r, c + 1, closed)

\* np.full(n, False), as a list.
AllFalse(n) == IF n = 0 THEN << >> ELSE [k \in 1..n |-> FALSE]

\* The number of rows of a matrix.
NumRows(matrix) == Cardinality({ij[1] : ij \in DOMAIN matrix})

\* inside_spheres with the open balls: distances < r.
inside_spheres_open(dist_matrix_, point_nums, r) ==
    ToArray(SpheresLoop(AllFalse(NumRows(dist_matrix_)), dist_matrix_,
                        point_nums, r, 0, FALSE))

\* inside_spheres: in_spheres starts all False; for every sphere centre i of
\* point_nums the points n with dist_matrix[i, n] <= r are added.
inside_spheres(dist_matrix_, point_nums, r) ==
    ToArray(SpheresLoop(AllFalse(NumRows(dist_matrix_)), dist_matrix_,
                        point_nums, r, 0, TRUE))

\* inside_radii: in_spheres_list[path][radius].
inside_radii(dist_matrix_, path_matrix_, radii_) ==
    [p \in DOMAIN path_matrix_ |->
        [i \in DOMAIN radii_ |->
            inside_spheres(dist_matrix_, path_matrix_[p], radii_[i])]]

RECURSIVE Combinations(_, _, _)
\* itertools.combinations(range(n), 2), in its (lexicographic) order.
Combinations(n, p, q) ==
    IF p >= n - 1 THEN << >>
    ELSE IF q >= n THEN Combinations(n, p + 1, p + 2)
    ELSE << << p, q >> >> \o Combinations(n, p, q + 1)

RECURSIVE SumRange(_, _, _)
\* f[lo] + ... + f[hi] of an integer-indexed row.
SumRange(f, lo, hi) == IF lo > hi THEN 0 ELSE f[lo] + SumRange(f, lo + 1, hi)

\* np.sum(score_matrix[in_spheres, :][:, in_spheres]): the sum of the score
\* matrix over the rows and columns inside the spheres.
SubsetScore(score_matrix_, in_spheres) ==
    LET n_points == Cardinality(DOMAIN in_spheres)
        row_sums == [a \in 0..(n_points - 1) |->
                        IF in_spheres[a]
                        THEN SumRange([b \in 0..(n_points - 1) |->
                                          IF in_spheres[b]
                                          THEN score_matrix_[<< a, b >>]
                                          ELSE 0],
                                      0, n_points - 1)
                        ELSE 0]
    IN  SumRange(row_sums, 0, n_points - 1)

RECURSIVE ComboScores(_, _, _, _)
\* combo_scores after the inner loop for radius number i (a list).
ComboScores(combos, in_spheres_list, score_matrix_, i) ==
    IF combos = << >> THEN << >>
    ELSE LET in_spheres_1 == in_spheres_list[Head(combos)[1]][i]
             in_spheres_2 == in_spheres_list[Head(combos)[2]][i]
             in_spheres == [n \in DOMAIN in_spheres_1 |->
                               in_spheres_1[n] \/ in_spheres_2[n]]
         IN  << SubsetScore(score_matrix_, in_spheres) >>
             \o ComboScores(Tail(combos), in_spheres_list, score_matrix_, i)

RECURSIVE AddWinners(_, _, _)
\* votes + radius_winners.
AddWinners(votes, combo_scores, max_score) ==
    IF votes = << >> THEN << >>
    ELSE << Head(votes) + (IF Head(combo_scores) = max_score THEN 1 ELSE 0) >>
         \o AddWinners(Tail(votes), Tail(combo_scores), max_score)

RECURSIVE CountVotes(_, _, _, _, _, _)
\* The loop over the radii: every combo with the maximum score gets a vote.
CountVotes(votes, combos, in_spheres_list, score_matrix_, i, n_radii) ==
    IF i > n_radii THEN votes
    ELSE LET combo_scores ==
                 ComboScores(combos, in_spheres_list, score_matrix_, i)
             max_score == Max({combo_scores[ii] : ii \in DOMAIN combo_scores})
         IN  CountVotes(AddWinners(votes, combo_scores, max_score), combos,
                        in_spheres_list, score_matrix_, i + 1, n_radii)

RECURSIVE Zeros(_)
\* np.zeros(n), as a list.
Zeros(n) == IF n = 0 THEN << >> ELSE << 0 >> \o Zeros(n - 1)

\* np.argmax: the first index of the maximum.
ArgMax(f) == Min({i \in DOMAIN f : \A j \in DOMAIN f : f[j] <= f[i]})

\* The last index of the maximum.
ArgMaxLast(f) == Max({i \in DOMAIN f : \A j \in DOMAIN f : f[j] <= f[i]})

\* np.argmin: the first index of the minimum.
ArgMin(f) == Min({i \in DOMAIN f : \A j \in DOMAIN f : f[i] <= f[j]})

\* The votes of the combos after all radii.
FootVotes(dist_matrix_, score_matrix_, path_matrix_, radii_) ==
    LET combos == Combinations(Cardinality(DOMAIN path_matrix_), 0, 1)
    IN  CountVotes(Zeros(Len(combos)), combos,
                   inside_radii(dist_matrix_, path_matrix_, radii_),
                   score_matrix_, 1, Len(radii_))

\* select_best_feet taking the last of the combos with the most votes.
select_best_feet_last(dist_matrix_, score_matrix_, path_matrix_, radii_) ==
    LET combos == Combinations(Cardinality(DOMAIN path_matrix_), 0, 1)
    IN  IF combos = << >>
        THEN [ok |-> FALSE, foot_1 |-> NONE, foot_2 |-> NONE]
        ELSE LET winning_combo ==
                     ArgMaxLast(FootVotes(dist_matrix_, score_matrix_,
                                          path_matrix_, radii_))
             IN  [ok |-> TRUE, foot_1 |-> combos[winning_combo][1],
                  foot_2 |-> combos[winning_combo][2]]

\* select_best_feet: the first combo with the most votes.  With no combo
\* (fewer than two paths) max() or np.argmax of an empty array raises
\* ValueError (ok = FALSE).
select_best_feet(dist_matrix_, score_matrix_, path_matrix_, radii_) ==
    LET combos == Combinations(Cardinality(DOMAIN path_matrix_), 0, 1)
    IN  IF combos = << >>
        THEN [ok |-> FALSE, foot_1 |-> NONE, foot_2 |-> NONE]
        ELSE LET winning_combo ==
                     ArgMax(FootVotes(dist_matrix_, score_matrix_,
                                      path_matrix_, radii_))
             IN  [ok |-> TRUE, foot_1 |-> combos[winning_combo][1],
                  foot_2 |-> combos[winning_combo][2]]

\* foot_to_pop with the head of the shorter of the two chosen paths only.
foot_to_pop_pair(pop, path_matrix_, path_dist_, foot_num_1, foot_num_2) ==
    LET path_1 == path_matrix_[foot_num_1]
        path_2 == path_matrix_[foot_num_2]
        min_path == IF path_dist_[foot_num_1] <= path_dist_[foot_num_2]
                    THEN path_1 ELSE path_2
        head_pos == pop[min_path[0]]
    IN  [pop_1 |-> [c \in DOMAIN path_1 |->
                       IF c = 0 THEN head_pos ELSE pop[path_1[c]]],
         pop_2 |-> [c \in DOMAIN path_2 |->
                       IF c = 0 THEN head_pos ELSE pop[path_2[c]]]]

\* foot_to_pop: the points of the two paths, both with the head of the path
\* of minimum distance among all the paths.
foot_to_pop(pop, path_matrix_, path_dist_, foot_num_1, foot_num_2) ==
    LET path_1 == path_matrix_[foot_num_1]
        path_2 == path_matrix_[foot_num_2]
        min_path == path_matrix_[ArgMin(path_dist_)]
        head_pos == pop[min_path[0]]
    IN  [pop_1 |-> [c \in DOMAIN path_1 |->
                       IF c = 0 THEN head_pos ELSE pop[path_1[c]]],
         pop_2 |-> [c \in DOMAIN path_2 |->
                       IF c = 0 THEN head_pos ELSE pop[path_2[c]]]]

\* ------------------------------------------------------------------ inputs
\* The connections of consecutive part types, and those that skip one type.
Consecutive(K) == {<< a, a + 1 >> : a \in 0..(K - 2)}

SkipOne(K) == {<< a, a + 2 >> : a \in 0..(K - 3)}

\* Two tables of K part types: every connection, with alternating lengths
\* 4, 3, 4, ...; and the consecutive connections only, with all lengths 3.
AdjChoicesOf(K) ==
    {lengths_to_adj_list(Consecutive(K) \cup SkipOne(K),
                         [i \in 0..(K - 2) |-> IF i % 2 = 0 THEN 4 ELSE 3]),
     lengths_to_adj_list(Consecutive(K), [i \in 0..(K - 2) |-> 3])}

\* The label adjacency lists of K part types, K = 2..MaxK.
AdjChoices == UNION {AdjChoicesOf(K) : K \in 2..MaxK}

RadiiChoices == {<< 3 >>, << 0, 4 >>}

\* The label arrays of n hypotheses over K part types, sorted ascending.
SortedLabels(n, K) ==
    {f \in [0..(n - 1) -> 0..(K - 1)] : \A i \in 0..(n - 2) : f[i] <= f[i + 1]}

\* ------------------------------------------------------------------- state
VARIABLES
    population,             \* node -> point
    labels,                 \* node -> part type, sorted ascending
    label_adj_list,         \* label -> label -> expected distance
    radii,                  \* list of radii
    pc,                     \* position in process_frame
    cons_label_adj_list,
    pop_graph,              \* the graph built inside pop_shortest_paths
    prev,
    dist,
    path_matrix,
    path_dist,
    score_matrix,
    dist_matrix,
    filtered_score_matrix,
    foot_1,
    foot_2,
    pop_1,
    pop_2,
    result,                 \* how process_frame ended
    \* estimate_lengths
    pop_series,             \* frame -> population
    label_series,           \* frame -> labels
    n_frames,
    eps,
    lengths,
    prev_lengths,
    length_array,           \* frame -> segment -> measured length
    n_iter,                 \* passes of the while loop completed
    len_pc,                 \* position in estimate_lengths
    \* side assigner
    df_pass,                \* the table of a walking pass, a list of rows
    direction_pass,
    verified_sides,
    df_consistent,
    verified_again,         \* verify_sides_pass of df_consistent
    df_twice,               \* enforce_consistency of df_consistent
    side_pc,
    \* get_population
    frame_series,           \* body part -> list of part hypotheses
    part_labels,            \* body part -> label
    sorted_population,      \* the population returned
    sorted_labels,          \* the labels returned
    pop_pc,
    \* per-frame pipelines run in parallel
    par_adj,                \* the label_adj_list object that the calls share
    par_radii,              \* the radii object that the calls share
    par_frame,              \* worker -> population and labels of its frame
    par_pc,                 \* worker -> position in process_frame
    par_loc,                \* worker -> local variables of process_frame
    par_given,              \* the arguments as they were passed
    \* run_all_main
    main_k,                 \* position in main(): the call that comes next
    main_trial,             \* the frames and walking passes of the trial
    main_runs,              \* script -> number of times its main() was entered
    lengths_written,        \* times the length vector was computed
    frames_selected,        \* frames for which proposals were selected
    passes_labelled,        \* walking passes with sides labelled
    params_computed,        \* gait parameters were computed
    \* inside_spheres
    sphere_args,            \* dist_matrix, point_nums and r of the call
    in_spheres_out,         \* the array returned
    sphere_pc,
    \* dbscan_st
    st_points,              \* index -> position of the point
    st_times,               \* index -> time of the point
    eps_spatial,
    eps_temporal,
    min_pts,
    set_order,              \* the order in which a set is iterated
    D_spatial,              \* cdist(points, points)
    D_temporal,             \* cdist(times, times)
    cluster_labels,         \* index -> label; 0 is unlabelled, -1 is noise
    label_cluster,
    idx_pt,
    queue_search,
    n_puts,                 \* index -> times its neighbourhood was queued
    cluster_pc

inputs == << population, labels, label_adj_list, radii >>

paths_vars == << cons_label_adj_list, pop_graph, prev, dist >>

foot_vars == << path_matrix, path_dist >>

score_vars == << score_matrix, dist_matrix >>

chosen_vars == << foot_1, foot_2 >>

pop_vars == << pop_1, pop_2 >>

frame_vars == << inputs, pc, paths_vars, foot_vars, score_vars,
                 filtered_score_matrix, chosen_vars, pop_vars, result >>

len_inputs == << pop_series, label_series, n_frames, eps >>

len_vars == << len_inputs, lengths, prev_lengths, length_array, n_iter,
               len_pc >>

side_vars == << df_pass, direction_pass, verified_sides, df_consistent,
                verified_again, df_twice, side_pc >>

getpop_vars == << frame_series, part_labels, sorted_population,
                  sorted_labels, pop_pc >>

par_vars == << par_adj, par_radii, par_frame, par_pc, par_loc, par_given >>

main_vars == << main_k, main_trial, main_runs, lengths_written,
                frames_selected, passes_labelled, params_computed >>

sphere_vars == << sphere_args, in_spheres_out, sphere_pc >>

cluster_inputs == << st_points, st_times, eps_spatial, eps_temporal, min_pts,
                     set_order >>

\* What dbscan_st does not change once it is called.
cluster_fixed == << cluster_inputs, D_spatial, D_temporal >>

cluster_vars == << cluster_fixed, cluster_labels, label_cluster, idx_pt,
                   queue_search, n_puts, cluster_pc >>

\* The variables that process_frame does not touch.
not_frame_vars == << len_vars, side_vars, getpop_vars, par_vars, main_vars,
                     sphere_vars,
                      cluster_vars >>

\* The variables that estimate_lengths does not touch.
not_len_vars == << frame_vars, side_vars, getpop_vars, par_vars, main_vars,
                   sphere_vars,
                    cluster_vars >>

\* The variables that the side assigner does not touch.
not_side_vars == << frame_vars, len_vars, getpop_vars, par_vars, main_vars,
                    sphere_vars,
                     cluster_vars >>

\* The variables that get_population does not touch.
not_getpop_vars == << frame_vars, len_vars, side_vars, par_vars, main_vars,
                      sphere_vars,
                       cluster_vars >>

\* The variables that the parallel per-frame pipelines do not touch.
not_par_vars == << frame_vars, len_vars, side_vars, getpop_vars, main_vars,
                   sphere_vars,
                    cluster_vars >>

\* The variables that run_all_main does not touch.
not_main_vars == << frame_vars, len_vars, side_vars, getpop_vars, par_vars,
                    sphere_vars,
                     cluster_vars >>

\* The variables that inside_spheres does not touch.
not_sphere_vars == << frame_vars, len_vars, side_vars, getpop_vars, par_vars,
                      main_vars, cluster_vars >>

\* The variables that dbscan_st does not touch.
not_cluster_vars == << frame_vars, len_vars, side_vars, getpop_vars, par_vars,
                       main_vars, sphere_vars >>

vars == << frame_vars, len_vars, side_vars, getpop_vars, par_vars, main_vars,
           sphere_vars, cluster_vars >>

\* No frame is being processed.
IdleFrame ==
    /\ population = << >>
    /\ labels = << >>
    /\ label_adj_list = << >>
    /\ radii = << >>
    /\ pc = "idle"
    /\ cons_label_adj_list = << >>
    /\ pop_graph = << >>
    /\ prev = << >>
    /\ dist = << >>
    /\ path_matrix = << >>
    /\ path_dist = << >>
    /\ score_matrix = << >>
    /\ dist_matrix = << >>
    /\ filtered_score_matrix = << >>
    /\ foot_1 = NONE
    /\ foot_2 = NONE
    /\ pop_1 = << >>
    /\ pop_2 = << >>
    /\ result = "idle"

\* No length estimation is running.
IdleLengths ==
    /\ pop_series = << >>
    /\ label_series = << >>
    /\ n_frames = 0
    /\ eps = 0
    /\ lengths = << >>
    /\ prev_lengths = << >>
    /\ length_array = << >>
    /\ n_iter = 0
    /\ len_pc = "idle"

\* No walking pass is being corrected.
IdleSides ==
    /\ df_pass = << >>
    /\ direction_pass = << >>
    /\ verified_sides = << >>
    /\ df_consistent = << >>
    /\ verified_again = << >>
    /\ df_twice = << >>
    /\ side_pc = "idle"

\* get_population is not being called.
IdleGetPopulation ==
    /\ frame_series = << >>
    /\ part_labels = << >>
    /\ sorted_population = << >>
    /\ sorted_labels = << >>
    /\ pop_pc = "idle"

\* No frames are being processed in parallel.
IdleParallel ==
    /\ par_adj = << >>
    /\ par_radii = << >>
    /\ par_frame = << >>
    /\ par_pc = << >>
    /\ par_loc = << >>
    /\ par_given = << >>

\* run_all_main is not running.
IdleMain ==
    /\ main_k = 0
    /\ main_trial = << >>
    /\ main_runs = << >>
    /\ lengths_written = 0
    /\ frames_selected = 0
    /\ passes_labelled = 0
    /\ params_computed = FALSE

\* inside_spheres is not being called.
IdleSpheres ==
    /\ sphere_args = << >>
    /\ in_spheres_out = << >>
    /\ sphere_pc = "idle"

\* dbscan_st is not being called.
IdleCluster ==
    /\ st_points = << >>
    /\ st_times = << >>
    /\ eps_spatial = 0
    /\ eps_temporal = 0
    /\ min_pts = 0
    /\ set_order = "idle"
    /\ D_spatial = << >>
    /\ D_temporal = << >>
    /\ cluster_labels = << >>
    /\ label_cluster = 0
    /\ idx_pt = 0
    /\ queue_search = << >>
    /\ n_puts = << >>
    /\ cluster_pc = "idle"

\* The number of part types of the label adjacency list.
NumLabels == Cardinality(DOMAIN label_adj_list)

\* The label of the foot type.
MAX_LABEL == NumLabels - 1

Init ==
    /\ label_adj_list \in AdjChoices
    /\ \E n \in 1..(MaxSize - Cardinality(DOMAIN label_adj_list)) :
          /\ labels \in SortedLabels(n, Cardinality(DOMAIN label_adj_list))
          /\ population \in [0..(n - 1) -> Points]
    /\ radii \in RadiiChoices
    /\ pc = "pop_shortest_paths"
    /\ cons_label_adj_list = << >>
    /\ pop_graph = << >>
    /\ prev = << >>
    /\ dist = << >>
    /\ path_matrix = << >>
    /\ path_dist = << >>
    /\ score_matrix = << >>
    /\ dist_matrix = << >>
    /\ filtered_score_matrix = << >>
    /\ foot_1 = NONE
    /\ foot_2 = NONE
    /\ pop_1 = << >>
    /\ pop_2 = << >>
    /\ result = "running"
    /\ IdleLengths
    /\ IdleSides
    /\ IdleGetPopulation
    /\ IdleParallel
    /\ IdleMain
    /\ IdleSpheres
    /\ IdleCluster

\* process_frame, first two statements: only_consecutive_labels and
\* pop_shortest_paths.
\* In the actions the value of a call is bound once, as the one element of
\* a set, and its parts are read from it.
PopShortestPaths ==
    /\ pc = "pop_shortest_paths"
    /\ cons_label_adj_list' = only_consecutive_labels(label_adj_list)
    /\ pop_graph' = points_to_graph(population, labels, cons_label_adj_list')
    /\ \E sp \in {pop_shortest_paths(population, labels,
                                      cons_label_adj_list')} :
           prev' = sp.prev /\ dist' = sp.dist
    /\ pc' = "paths_to_foot"
    /\ UNCHANGED not_frame_vars
    /\ UNCHANGED << inputs, foot_vars, score_vars, filtered_score_matrix,
                    chosen_vars, pop_vars, result >>

\* paths_to_foot; a path that cannot be traced ends process_frame.
PathsToFoot ==
    /\ pc = "paths_to_foot"
    /\ \E ptf \in {paths_to_foot(prev, dist, labels)} :
           /\ path_matrix' = ptf.path_matrix
           /\ path_dist' = ptf.path_dist
           /\ pc' = IF ptf.ok THEN "get_score_matrix" ELSE "failed"
           /\ result' = IF ptf.ok THEN result ELSE "PATH_BROKEN"
    /\ UNCHANGED not_frame_vars
    /\ UNCHANGED << inputs, paths_vars, score_vars, filtered_score_matrix,
                    chosen_vars, pop_vars >>

GetScoreMatrix ==
    /\ pc = "get_score_matrix"
    /\ \E gsm \in {get_score_matrix(population, labels, label_adj_list)} :
           score_matrix' = gsm.score_matrix /\ dist_matrix' = gsm.dist_matrix
    /\ pc' = "filter_by_path"
    /\ UNCHANGED not_frame_vars
    /\ UNCHANGED << inputs, paths_vars, foot_vars, filtered_score_matrix,
                    chosen_vars, pop_vars, result >>

FilterByPath ==
    /\ pc = "filter_by_path"
    /\ filtered_score_matrix' =
           filter_by_path(score_matrix, path_matrix, label_adj_list)
    /\ pc' = "select_best_feet"
    /\ UNCHANGED not_frame_vars
    /\ UNCHANGED << inputs, paths_vars, foot_vars, score_vars, chosen_vars,
                    pop_vars, result >>

\* select_best_feet; with fewer than two paths it raises ValueError, which
\* process_frame does not catch.
SelectBestFeet ==
    /\ pc = "select_best_feet"
    /\ \E sbf \in {select_best_feet(dist_matrix, filtered_score_matrix,
                                      path_matrix, radii)} :
           /\ foot_1' = sbf.foot_1
           /\ foot_2' = sbf.foot_2
           /\ pc' = IF sbf.ok THEN "foot_to_pop" ELSE "failed"
           /\ result' = IF sbf.ok THEN result ELSE "ValueError"
    /\ UNCHANGED not_frame_vars
    /\ UNCHANGED << inputs, paths_vars, foot_vars, score_vars,
                    filtered_score_matrix, pop_vars >>

\* foot_to_pop and the return of process_frame.
FootToPop ==
    /\ pc = "foot_to_pop"
    /\ \E ftp \in {foot_to_pop(population, path_matrix, path_dist,
                                 foot_1, foot_2)} :
           pop_1' = ftp.pop_1 /\ pop_2' = ftp.pop_2
    /\ pc' = "done"
    /\ result' = "SKELETON_PAIR"
    /\ UNCHANGED not_frame_vars
    /\ UNCHANGED << inputs, paths_vars, foot_vars, score_vars,
                    filtered_score_matrix, chosen_vars >>

Next ==
    \/ PopShortestPaths
    \/ PathsToFoot
    \/ GetScoreMatrix
    \/ FilterByPath
    \/ SelectBestFeet
    \/ FootToPop

Spec == Init /\ [][Next]_vars

TypeOK ==
    /\ pc \in {"pop_shortest_paths", "paths_to_foot", "get_score_matrix",
               "filter_by_path", "select_best_feet", "foot_to_pop", "done",
               "failed", "idle"}
    /\ result \in {"running", "PATH_BROKEN", "ValueError", "SKELETON_PAIR",
                   "idle"}
    /\ len_pc \in {"while", "returned", "idle"}
    /\ pop_pc \in {"get_population", "done", "idle"}
    /\ main_k \in 0..5
    /\ sphere_pc \in {"inside_spheres", "done", "idle"}
    /\ cluster_pc \in {"call", "for", "grow", "returned", "idle"}
    /\ \A w \in DOMAIN par_pc :
           par_pc[w] \in {"pop_shortest_paths", "paths_to_foot",
                          "get_score_matrix", "filter_by_path",
                          "select_best_feet", "foot_to_pop", "done", "failed"}
    /\ side_pc \in {"verify_sides_pass", "enforce_consistency", "verify_again",
                    "enforce_again", "done", "idle"}

\* ------------------------------------------------------------------ claims
\* The label pair (a, b) is an entry of the adjacency list adj.
InAdj(adj, a, b) == a \in DOMAIN adj /\ b \in DOMAIN adj[a]

\* pop_shortest_paths has returned.
GraphBuilt == pc # "pop_shortest_paths"

\* C1: every edge (i, j) of the graph built by pop_shortest_paths goes from a
\* label to the next label, labels[j] = labels[i] + 1, and (i, j) is an edge
\* exactly when i < j and the label pair (labels[i], labels[j]) is in the
\* consecutive-only label adjacency list.
C1_EdgesFollowConsecutiveList ==
    GraphBuilt =>
        \A i, j \in Nodes(labels) :
            /\ j \in DOMAIN pop_graph[i] => labels[j] = labels[i] + 1
            /\ j \in DOMAIN pop_graph[i] <=>
                   (i < j /\ InAdj(cons_label_adj_list, labels[i], labels[j]))

\* The graph has an edge, and two nodes whose labels are connected in the
\* full list but not consecutive have none.
C1_Witness ==
    /\ GraphBuilt
    /\ \E i, j \in Nodes(labels) : j \in DOMAIN pop_graph[i]
    /\ \E i, j \in Nodes(labels) :
           /\ InAdj(label_adj_list, labels[i], labels[j])
           /\ labels[j] - labels[i] > 1
           /\ j \notin DOMAIN pop_graph[i]

\* C2: after pop_shortest_paths a node of label 0 has no predecessor and
\* distance 0, and a node v with predecessor u has the edge (u, v) and
\* dist[v] = dist[u] + weight(u, v).
C2_ShortestPathConsistent ==
    GraphBuilt =>
        \A v \in Nodes(labels) :
            /\ labels[v] = 0 => (prev[v] = NONE /\ dist[v] = 0)
            /\ prev[v] # NONE =>
                   /\ prev[v] \in Nodes(labels)
                   /\ v \in DOMAIN pop_graph[prev[v]]
                   /\ dist[prev[v]] # INF
                   /\ dist[v] = dist[prev[v]] + pop_graph[prev[v]][v]

\* Some node is two edges away from a head, at a positive distance.
C2_Witness ==
    /\ GraphBuilt
    /\ \E v \in Nodes(labels) :
           /\ prev[v] # NONE
           /\ prev[prev[v]] # NONE
           /\ labels[prev[prev[v]]] = 0
           /\ dist[prev[v]] > 0
           /\ dist[v] > dist[prev[v]]

\* The largest label of the frame, which paths_to_foot takes as the foot type.
MaxLabelPresent == Max({labels[v] : v \in Nodes(labels)})

FootNodes == {v \in Nodes(labels) : labels[v] = MaxLabelPresent}

\* The chains of nodes with labels 0, 1, ..., labels[f] that end at f and
\* follow edges of the graph.
ChainsTo(f) ==
    {c \in [0..labels[f] -> Nodes(labels)] :
        /\ c[labels[f]] = f
        /\ \A l \in 0..labels[f] : labels[c[l]] = l
        /\ \A l \in 0..(labels[f] - 1) : c[l + 1] \in DOMAIN pop_graph[c[l]]}

\* The sum of the edge weights along a chain.
ChainCost(c) ==
    SumRange([l \in 0..(Cardinality(DOMAIN c) - 2) |-> pop_graph[c[l]][c[l + 1]]],
             0, Cardinality(DOMAIN c) - 2)

\* paths_to_foot has returned a path matrix.
PathsTraced ==
    pc \in {"get_score_matrix", "filter_by_path", "select_best_feet",
            "foot_to_pop", "done"} \/ (pc = "failed" /\ result = "ValueError")

\* C3: the distance of every foot node that a head reaches is the least
\* total weight of a chain of nodes of labels 0, 1, ... ending at the foot,
\* and the row of the path matrix for that foot is a chain of that weight.
C3_FootDistanceIsMinimum ==
    /\ GraphBuilt =>
           \A f \in FootNodes :
               ChainsTo(f) # {} =>
                   dist[f] = Min({ChainCost(c) : c \in ChainsTo(f)})
    /\ PathsTraced =>
           \A r \in DOMAIN path_matrix :
               /\ path_matrix[r] \in ChainsTo(path_matrix[r][MaxLabelPresent])
               /\ ChainCost(path_matrix[r]) = path_dist[r]
               /\ \A c \in ChainsTo(path_matrix[r][MaxLabelPresent]) :
                      path_dist[r] <= ChainCost(c)

\* A foot is reached by chains of different weight, through different nodes
\* of the middle type, and its row is the lightest of them.
C3_Witness ==
    /\ PathsTraced
    /\ MaxLabelPresent >= 2
    /\ \E r \in DOMAIN path_matrix :
           \E c \in ChainsTo(path_matrix[r][MaxLabelPresent]) :
               /\ ChainCost(c) > path_dist[r]
               /\ c[1] < path_matrix[r][1]

FeetSelected == pc \in {"foot_to_pop", "done"}

\* The nodes inside the spheres of radius r around the nodes of path p.
SphereRegion(p, r) ==
    {n \in Nodes(labels) :
        \E c \in DOMAIN path_matrix[p] :
            dist_matrix[<< path_matrix[p][c], n >>] <= r}

\* The summed filtered score inside the union of the regions of p and q.
PairScore(p, q, r) ==
    LET region == SphereRegion(p, r) \cup SphereRegion(q, r)
    IN  SumOver(filtered_score_matrix, region \X region)

FootPairs ==
    {pq \in (DOMAIN path_matrix) \X (DOMAIN path_matrix) : pq[1] < pq[2]}

\* The pairs with the maximal score at radius number i.
RadiusWinners(i) ==
    LET scores == {<< pq, PairScore(pq[1], pq[2], radii[i]) >> : pq \in FootPairs}
    IN  {s[1] : s \in {t \in scores : \A u \in scores : u[2] <= t[2]}}

\* For every pair, the number of radii at which it is a winner.
TotalVotes ==
    LET winners == {<< i, RadiusWinners(i) >> : i \in DOMAIN radii}
    IN  {<< pq, Cardinality({w \in winners : pq \in w[2]}) >> : pq \in FootPairs}

LexLeq(a, b) == a[1] < b[1] \/ (a[1] = b[1] /\ a[2] <= b[2])

\* C5: with one vote per radius for every pair of foot paths whose summed
\* filtered score inside the two paths' spheres is maximal at that radius,
\* select_best_feet returns a pair (p, q), p < q, with the most votes, and
\* the lexicographically lowest of the pairs with the most votes.
C5_BestFeetByVotes ==
    FeetSelected =>
        LET votes == TotalVotes
        IN  \E chosen \in votes :
                /\ chosen[1] = << foot_1, foot_2 >>
                /\ \A v \in votes :
                       /\ v[2] <= chosen[2]
                       /\ v[2] = chosen[2] => LexLeq(chosen[1], v[1])

\* Three foot paths and two radii: the chosen pair ties on total votes with
\* another pair, a third pair has fewer votes, and the winners of the two radii
\* differ.
C5_Witness ==
    /\ FeetSelected
    /\ Cardinality(DOMAIN path_matrix) >= 3
    /\ Len(radii) = 2
    /\ RadiusWinners(1) # RadiusWinners(2)
    /\ LET votes == TotalVotes
       IN  \E chosen, tied, fewer \in votes :
               /\ chosen[1] = << foot_1, foot_2 >>
               /\ tied[1] # chosen[1]
               /\ tied[2] = chosen[2]
               /\ fewer[2] < chosen[2]

\* filter_by_path has returned.
Filtered == pc \in {"select_best_feet", "foot_to_pop", "done"}
                \/ (pc = "failed" /\ result = "ValueError")

\* Row r of the path matrix has x and y in columns a and b, and (a, b) is an
\* allowed label pair of the full label adjacency list.
LinkedOnPath(r, x, y) ==
    \E a, b \in DOMAIN path_matrix[r] :
        /\ InAdj(label_adj_list, a, b)
        /\ x = path_matrix[r][a]
        /\ y = path_matrix[r][b]

\* Some row of the path matrix holds both x and y.
OnCommonPath(x, y) ==
    \E r \in DOMAIN path_matrix :
        \E a, b \in DOMAIN path_matrix[r] :
            x = path_matrix[r][a] /\ y = path_matrix[r][b]

\* C6: the filtered matrix equals the score matrix at (x, y) when x and y
\* stand on one foot path in columns whose label pair is allowed, and is 0
\* everywhere else: for nodes on no common foot path, on the diagonal, and
\* from a higher label to a lower one.
C6_FilterKeepsPathLinksOnly ==
    Filtered =>
        \A x, y \in Nodes(labels) :
            /\ filtered_score_matrix[<< x, y >>] =
                   IF \E r \in DOMAIN path_matrix : LinkedOnPath(r, x, y)
                   THEN score_matrix[<< x, y >>]
                   ELSE 0
            /\ ~OnCommonPath(x, y) => filtered_score_matrix[<< x, y >>] = 0
            /\ x = y => filtered_score_matrix[<< x, y >>] = 0
            /\ labels[x] > labels[y] => filtered_score_matrix[<< x, y >>] = 0

\* A pair with a non-zero score on no common foot path is dropped, and a
\* non-zero score between two nodes of one path is kept.
C6_Witness ==
    /\ Filtered
    /\ \E x, y \in Nodes(labels) :
           /\ ~OnCommonPath(x, y)
           /\ score_matrix[<< x, y >>] # 0
           /\ filtered_score_matrix[<< x, y >>] = 0
    /\ \E x, y \in Nodes(labels) : filtered_score_matrix[<< x, y >>] # 0

\* C7: filtering the filtered matrix again, with the same path matrix and
\* label adjacency list, gives the filtered matrix.
C7_FilterIdempotent ==
    Filtered =>
        filter_by_path(filtered_score_matrix, path_matrix, label_adj_list)
            = filtered_score_matrix

\* Two foot paths share a link, whose non-zero score the filter has kept.
C7_Witness ==
    /\ Filtered
    /\ \E r, t \in DOMAIN path_matrix :
           /\ r # t
           /\ \E x, y \in Nodes(labels) :
                  /\ LinkedOnPath(r, x, y)
                  /\ LinkedOnPath(t, x, y)
                  /\ filtered_score_matrix[<< x, y >>] # 0

\* C8: below the head row, pop_1 and pop_2 are the points of the two chosen
\* paths; the head row of both is the head point of a foot path whose total
\* distance is the minimum over all the foot paths.
C8_FootToPop ==
    pc = "done" =>
        /\ DOMAIN pop_1 = DOMAIN path_matrix[foot_1]
        /\ DOMAIN pop_2 = DOMAIN path_matrix[foot_2]
        /\ \A c \in DOMAIN pop_1 \ {0} :
               /\ pop_1[c] = population[path_matrix[foot_1][c]]
               /\ pop_2[c] = population[path_matrix[foot_2][c]]
        /\ \E r \in DOMAIN path_matrix :
               /\ \A t \in DOMAIN path_matrix : path_dist[r] <= path_dist[t]
               /\ pop_1[0] = population[path_matrix[r][0]]
               /\ pop_2[0] = population[path_matrix[r][0]]

\* The path of minimum distance is neither of the chosen two, and both chosen
\* paths leave from a head at another point than the one returned.
C8_Witness ==
    /\ pc = "done"
    /\ \A r \in {foot_1, foot_2} :
           /\ \E t \in DOMAIN path_matrix : path_dist[t] < path_dist[r]
           /\ population[path_matrix[r][0]] # pop_1[0]

\* process_frame has ended, with a return value or with an exception.
Ended == pc \in {"done", "failed"}

\* The frame has no candidate of the foot type.
FootTypeAbsent == \A v \in Nodes(labels) : labels[v] # MAX_LABEL

\* C9: a frame with no candidate of the foot type (MAX_LABEL, the last label
\* of the label adjacency list) is reported FRAME_INCOMPLETE: process_frame
\* ends without a skeleton pair, pop_1 and pop_2 are never produced.
C9_NoFootNoSkeleton ==
    (Ended /\ FootTypeAbsent) =>
        /\ result # "SKELETON_PAIR"
        /\ pop_1 = << >>
        /\ pop_2 = << >>

\* C10: a frame for which paths_to_foot returns fewer than two foot paths
\* ends process_frame with the result FRAME_INCOMPLETE, not with a skeleton
\* pair and not with a failure of another kind.
C10_FewerThanTwoPathsIncomplete ==
    (Ended /\ path_dist # << >> /\ Cardinality(DOMAIN path_matrix) < 2) =>
        result = "FRAME_INCOMPLETE"

\* ========================================================= estimate_lengths
\* Largest size of a length estimation: the number of frames read plus the
\* number of lengths (part types minus one).
MaxEstimate == 4

\* The points of the frames of a length estimation.  Every coordinate is
\* even, so every measured length is even (0, 6, 8 or 10) and the mean of
\* two of them, which np.median takes on an even number of frames, is an
\* integer.
LengthPoints == << <<0, 0, 0>>, <<6, 0, 0>>, <<0, 8, 0>> >>

\* The convergence criteria: with whole-number lengths eps = 1 stands for
\* every eps in (0, 1] (the default 0.01 among them), eps = 2 for (1, 2].
EpsChoices == {1, 2}

Abs(x) == IF x < 0 THEN -x ELSE x

\* dist[a] < dist[b] with INF for +infinity.
Closer(da, db) == da # INF /\ (db = INF \/ da < db)

\* gr.min_shortest_path: of the nodes of label l the first one of minimum
\* distance, and the path traced to it.
min_shortest_path(prv, dst, labs, l) ==
    LET targets == {v \in Nodes(labs) : labs[v] = l}
        foot == Min({v \in targets : \A u \in targets : ~Closer(dst[u], dst[v])})
    IN  Chain(prv, foot)

\* lin.consecutive_dist: the distances between consecutive points of a list.
consecutive_dist(points) ==
    [i \in 1..(Len(points) - 1) |-> distance(points[i], points[i + 1])]

RECURSIVE Sorted(_)
\* The values of a list in ascending order.
Sorted(s) ==
    IF s = << >> THEN << >>
    ELSE LET i == ArgMin(s)
         IN  << s[i] >> \o Sorted(SubSeq(s, 1, i - 1) \o SubSeq(s, i + 1, Len(s)))

\* np.median of a list: the middle value, and on an even count the mean of
\* the two middle values.
median(values) ==
    LET s == Sorted(values)
        n == Len(s)
    IN  IF n % 2 = 1 THEN s[(n + 1) \div 2]
        ELSE (s[n \div 2] + s[n \div 2 + 1]) \div 2

\* length_dict of one pass: i -> {i + 1: lengths[i]}, and n_lengths -> {}.
LengthDict(lengths_, n_lengths) ==
    [i \in 0..n_lengths |->
        IF i < n_lengths THEN [j \in {i + 1} |-> lengths_[i]] ELSE << >>]

\* One row of length_array: the segment lengths of the minimum shortest path
\* of a frame.
LengthRow(pop, labs, length_dict, n_lengths) ==
    LET sp == pop_shortest_paths(pop, labs, length_dict)
        min_path == min_shortest_path(sp.prev, sp.dist, labs, n_lengths)
        min_pop == [c \in 1..Len(min_path) |-> pop[min_path[c]]]
    IN  consecutive_dist(min_pop)

\* length_array after the loop over frames[:n_frames].
LengthArray(pops, labss, lengths_, n_lengths) ==
    LET length_dict == LengthDict(lengths_, n_lengths)
    IN  [f \in DOMAIN pops |->
            LengthRow(pops[f], labss[f], length_dict, n_lengths)]

\* np.median(length_array, axis=0).
MedianLengths(length_array_, n_lengths) ==
    [i \in 0..(n_lengths - 1) |->
        median([f \in DOMAIN length_array_ |-> length_array_[f][i + 1]])]

\* np.all(abs(lengths - prev_lengths)) < eps: np.all gives True (1) when
\* every difference is non-zero and False (0) otherwise, and that number is
\* compared with eps.
StopTest(lengths_, prev_lengths_, eps_) ==
    (IF \A i \in DOMAIN lengths_ : Abs(lengths_[i] - prev_lengths_[i]) # 0
     THEN 1 ELSE 0) < eps_

\* The candidates of one part type in a frame: one point, or two different
\* points in the order of LengthPoints.
Candidates ==
    {<< LengthPoints[a] >> : a \in DOMAIN LengthPoints}
        \cup {<< LengthPoints[ab[1]], LengthPoints[ab[2]] >> :
                 ab \in {cd \in (DOMAIN LengthPoints) \X (DOMAIN LengthPoints) :
                            cd[1] < cd[2]}}

RECURSIVE Flatten(_)
\* The concatenation of a list of lists.
Flatten(ss) == IF ss = << >> THEN << >> ELSE Head(ss) \o Flatten(Tail(ss))

\* The frames of K part types: one head and one or two candidates of every
\* other type, sorted by label as get_population returns them.
LengthFrames(K) ==
    {[population |-> ToArray(Flatten(<< << LengthPoints[h] >> >> \o parts)),
      labels |-> ToArray(Flatten([l \in 1..K |->
                     [c \in 1..Len((<< << 0 >> >> \o parts)[l]) |-> l - 1]]))] :
        h \in DOMAIN LengthPoints, parts \in [1..(K - 1) -> Candidates]}

\* estimate_lengths is called with n_frames frames (frames after the first
\* n_frames are never read) that hold every part type 0..n_lengths, and with
\* eps; lengths = np.zeros(n_lengths).
InitLengths ==
    /\ \E n_lengths \in 1..(MaxEstimate - 1) :
          /\ n_frames \in 1..(MaxEstimate - n_lengths)
          /\ \E fs \in [1..n_frames -> LengthFrames(n_lengths + 1)] :
                /\ pop_series = [f \in 1..n_frames |-> fs[f].population]
                /\ label_series = [f \in 1..n_frames |-> fs[f].labels]
          /\ lengths = [i \in 0..(n_lengths - 1) |-> 0]
    /\ eps \in EpsChoices
    /\ prev_lengths = << >>
    /\ length_array = << >>
    /\ n_iter = 0
    /\ len_pc = "while"
    /\ IdleFrame
    /\ IdleSides
    /\ IdleGetPopulation
    /\ IdleParallel
    /\ IdleMain
    /\ IdleSpheres
    /\ IdleCluster

\* One pass of the while loop of estimate_lengths: the minimum shortest path
\* of every frame under the current lengths, the median update, and the
\* convergence test that ends the loop.
EstimatePass ==
    /\ len_pc = "while"
    /\ LET n_lengths == Max({label_series[1][v] : v \in DOMAIN label_series[1]})
           array == LengthArray(pop_series, label_series, lengths, n_lengths)
           new_lengths == MedianLengths(array, n_lengths)
       IN  /\ prev_lengths' = lengths
           /\ length_array' = array
           /\ lengths' = new_lengths
           /\ len_pc' = IF StopTest(new_lengths, lengths, eps)
                        THEN "returned" ELSE "while"
    /\ n_iter' = n_iter + 1
    /\ UNCHANGED len_inputs
    /\ UNCHANGED not_len_vars

NextLengths == EstimatePass

SpecLengths == InitLengths /\ [][NextLengths]_vars

\* ------------------------------------------------ claims, estimate_lengths
\* The largest change of a length in the last pass of the loop.
MaxChange == Max({Abs(lengths[i] - prev_lengths[i]) : i \in DOMAIN lengths})

\* C11: the loop of estimate_lengths stops at a pass if and only if every
\* length changed by less than eps in that pass, max |lengths - prev_lengths|
\* < eps: it goes on while some length changed by eps or more, and it stops
\* when every change is below eps.
C11_StopsIffEpsStable ==
    n_iter > 0 => ((len_pc = "returned") <=> (MaxChange < eps))

\* C12: estimate_lengths ends in one of two ways, with eps-stable lengths or
\* with LENGTH_NOT_CONVERGED after a maximum number of passes.  The code has
\* no pass count and no LENGTH_NOT_CONVERGED outcome (it only returns), so
\* whenever it has returned the lengths must be eps-stable.
C12_ReturnsStableLengths ==
    len_pc = "returned" => MaxChange < eps

\* The measured lengths of segment i over the frames, in ascending order.
SegmentColumn(i) ==
    Sorted([f \in DOMAIN length_array |-> length_array[f][i + 1]])

\* C18: after a pass over an even number of frames every length is the lower
\* of the two middle values of the frames' segment distances (and after a
\* pass over an odd number the middle value).
C18_MedianLowerMiddle ==
    n_iter > 0 =>
        \A i \in DOMAIN lengths :
            lengths[i] = SegmentColumn(i)[(n_frames + 1) \div 2]

\* The frames are identical and hold exactly one candidate per part type.
IdenticalSingles ==
    /\ len_pc # "idle"
    /\ \A f \in DOMAIN pop_series :
           /\ pop_series[f] = pop_series[1]
           /\ label_series[f] = label_series[1]
    /\ \A v \in DOMAIN label_series[1] : label_series[1][v] = v

\* The consecutive segment distances of the skeleton of the first frame.
TrueLengths ==
    [i \in DOMAIN lengths |->
        distance(pop_series[1][i], pop_series[1][i + 1])]

\* C19: on identical frames with one candidate per part type the lengths
\* after the first pass are the true consecutive segment distances, the
\* second pass leaves them unchanged, and the loop stops after the second
\* pass (not before, not later) returning them.  The skeletons whose
\* segments all have length zero, which no pass changes, are left aside.
C19_IdenticalFramesTwoPasses ==
    (IdenticalSingles /\ n_iter > 0
        /\ \E i \in DOMAIN lengths : TrueLengths[i] # 0) =>
        /\ lengths = TrueLengths
        /\ (len_pc = "returned") <=> (n_iter >= 2)
        /\ n_iter <= 2

\* ============================================================ side assigner
\* Largest number of frames (rows) of a walking pass.
MaxRows == 2

Cross(a, b) ==
    << a[2] * b[3] - a[3] * b[2], a[3] * b[1] - a[1] * b[3],
       a[1] * b[2] - a[2] * b[1] >>

Dot(a, b) == a[1] * b[1] + a[2] * b[2] + a[3] * b[3]

\* lin.target_side_value: the component of target along up x forward;
\* negative to the left of forward, positive to the right.
target_side_value(forward, up, target) == Dot(Cross(up, forward), target)

\* lin.target_side: the side of forward on which target lies, seen with up
\* pointing up.
target_side(forward, up, target) ==
    LET value == target_side_value(forward, up, target)
    IN  IF value < 0 THEN "left"
        ELSE IF value > 0 THEN "right" ELSE "straight"

\* verify_sides in which only 'left' is taken as verified.
verify_sides_strict(foot_l, foot_r, head, direction_motion) ==
    LET up == [c \in 1..3 |-> 2 * head[c] - (foot_l[c] + foot_r[c])]
        vector_to_left == [c \in 1..3 |-> foot_l[c] - foot_r[c]]
    IN  target_side(direction_motion, up, vector_to_left) = "left"

\* verify_sides.  up and vector_to_left are held times two, which keeps
\* mean_foot = (foot_l + foot_r) / 2 out of the fractions and changes no sign.
verify_sides(foot_l, foot_r, head, direction_motion) ==
    LET up == [c \in 1..3 |-> 2 * head[c] - (foot_l[c] + foot_r[c])]
        vector_to_left == [c \in 1..3 |-> foot_l[c] - foot_r[c]]
        angle_dir == target_side(direction_motion, up, vector_to_left)
    IN  angle_dir = "left" \/ angle_dir = "straight"

\* verify_sides_pass: one value per row, in the order of the rows.
verify_sides_pass(df, direction) ==
    [i \in DOMAIN df |->
        verify_sides(df[i].L_FOOT, df[i].R_FOOT, df[i].HEAD, direction)]

\* df.loc[frame] = row: every row of that frame label takes the values.
LocSet(df, frame, row) ==
    [j \in DOMAIN df |->
        IF df[j].frame = frame
        THEN [df[j] EXCEPT !.HEAD = row.HEAD, !.L_FOOT = row.L_FOOT,
                           !.R_FOOT = row.R_FOOT]
        ELSE df[j]]

RECURSIVE EnforceLoop(_, _, _)
\* The loop of enforce_consistency from row i on.
EnforceLoop(df, verified, i) ==
    IF i > Len(df) THEN df
    ELSE LET row == df[i]
             switched == [row EXCEPT !.L_FOOT = row.R_FOOT,
                                     !.R_FOOT = row.L_FOOT]
         IN  EnforceLoop(IF ~verified[i] THEN LocSet(df, row.frame, switched)
                         ELSE df,
                         verified, i + 1)

\* enforce_consistency working on df_pass itself, not on a copy.
enforce_consistency_inplace(df, verified) ==
    LET df_loop == EnforceLoop(df, verified, 1)
    IN  [df_pass |-> df_loop, df_consistent |-> df_loop]

\* enforce_consistency: the loop runs on a copy of df_pass; the result holds
\* the table passed in as it is after the call, and the table returned.
enforce_consistency(df, verified) ==
    LET df_copy == df
    IN  [df_pass |-> df, df_consistent |-> EnforceLoop(df_copy, verified, 1)]

\* The positions of a row: the head above the ground plane z = 0, the feet
\* on it.
HeadPoints == { <<0, 0, 2>>, <<1, 0, 2>> }

FootPoints == { <<0, 1, 0>>, <<0, -1, 0>>, <<1, 0, 0>> }

\* The directions of motion that direction_of_pass may return
\* (lin.best_fit_line: a direction whose sign is arbitrary).
Directions == { <<1, 0, 0>>, <<-1, 0, 0>>, <<0, 1, 0>> }

\* The tables of n rows; row i is image frame 10 * i.
PassTables(n) ==
    {[i \in 1..n |-> [frame |-> 10 * i, HEAD |-> rows[i][1],
                      L_FOOT |-> rows[i][2], R_FOOT |-> rows[i][3]]] :
        rows \in [1..n -> HeadPoints \X FootPoints \X FootPoints]}

InitSides ==
    /\ df_pass \in UNION {PassTables(n) : n \in 1..MaxRows}
    /\ direction_pass \in Directions
    /\ verified_sides = << >>
    /\ df_consistent = << >>
    /\ verified_again = << >>
    /\ df_twice = << >>
    /\ side_pc = "verify_sides_pass"
    /\ IdleFrame
    /\ IdleLengths
    /\ IdleGetPopulation
    /\ IdleParallel
    /\ IdleMain
    /\ IdleSpheres
    /\ IdleCluster

VerifySidesPass ==
    /\ side_pc = "verify_sides_pass"
    /\ verified_sides' = verify_sides_pass(df_pass, direction_pass)
    /\ side_pc' = "enforce_consistency"
    /\ UNCHANGED << df_pass, direction_pass, df_consistent, verified_again,
                    df_twice >>
    /\ UNCHANGED not_side_vars

EnforceConsistency ==
    /\ side_pc = "enforce_consistency"
    /\ LET ec == enforce_consistency(df_pass, verified_sides)
       IN  df_pass' = ec.df_pass /\ df_consistent' = ec.df_consistent
    /\ side_pc' = "verify_again"
    /\ UNCHANGED << direction_pass, verified_sides, verified_again, df_twice >>
    /\ UNCHANGED not_side_vars

\* The corrected table is verified against the same direction: its HEAD
\* column, from which direction_of_pass fits the direction, is that of
\* df_pass.
VerifyAgain ==
    /\ side_pc = "verify_again"
    /\ verified_again' = verify_sides_pass(df_consistent, direction_pass)
    /\ side_pc' = "enforce_again"
    /\ UNCHANGED << df_pass, direction_pass, verified_sides, df_consistent,
                    df_twice >>
    /\ UNCHANGED not_side_vars

EnforceAgain ==
    /\ side_pc = "enforce_again"
    /\ LET ec == enforce_consistency(df_consistent, verified_again)
       IN  df_consistent' = ec.df_pass /\ df_twice' = ec.df_consistent
    /\ side_pc' = "done"
    /\ UNCHANGED << df_pass, direction_pass, verified_sides, verified_again >>
    /\ UNCHANGED not_side_vars

NextSides ==
    \/ VerifySidesPass
    \/ EnforceConsistency
    \/ VerifyAgain
    \/ EnforceAgain

SpecSides == InitSides /\ [][NextSides]_vars

\* ------------------------------------------------- claims, side assigner
\* The call enforce_consistency(before, verified) left the table passed in
\* as table_after and returned returned: the rows of before in the same
\* order, each with its frame and HEAD, and with L_FOOT and R_FOOT swapped
\* exactly when the frame is not verified.
SwappedExactly(before, verified, table_after, returned) ==
    /\ table_after = before
    /\ DOMAIN returned = DOMAIN before
    /\ \A i \in DOMAIN before :
           /\ returned[i].frame = before[i].frame
           /\ returned[i].HEAD = before[i].HEAD
           /\ verified[i] =>
                  /\ returned[i].L_FOOT = before[i].L_FOOT
                  /\ returned[i].R_FOOT = before[i].R_FOOT
           /\ ~verified[i] =>
                  /\ returned[i].L_FOOT = before[i].R_FOOT
                  /\ returned[i].R_FOOT = before[i].L_FOOT

\* C13: enforce_consistency returns a new table in which, for every frame,
\* L_FOOT and R_FOOT are swapped exactly when verified_sides is false for
\* that frame; verified frames, every HEAD, the frame order and the table
\* passed in are left unchanged.  Both calls of the corrector are covered.
C13_EnforceSwapsUnverified ==
    [][/\ EnforceConsistency =>
              SwappedExactly(df_pass, verified_sides, df_pass', df_consistent')
       /\ EnforceAgain =>
              SwappedExactly(df_consistent, verified_again, df_consistent',
                             df_twice')]_vars

\* enforce_consistency has returned.
Corrected == side_pc \in {"verify_again", "enforce_again", "done"}

\* A pass of two frames, one verified and one not, whose feet differ.
C13_Witness ==
    /\ Corrected
    /\ \E i, j \in DOMAIN df_pass :
           /\ verified_sides[i]
           /\ ~verified_sides[j]
           /\ df_pass[j].L_FOOT # df_pass[j].R_FOOT
           /\ df_consistent[j] # df_pass[j]

\* C14: correcting a corrected table changes nothing: verifying df_consistent
\* against the direction of the pass finds every frame verified, and
\* enforce_consistency returns it as it is.
C14_CorrectorIdempotent ==
    side_pc = "done" =>
        /\ df_twice = df_consistent
        /\ \A i \in DOMAIN verified_again : verified_again[i]

\* The first correction swapped the feet of a frame, and another frame was
\* verified as 'straight' only.
C14_Witness ==
    /\ side_pc = "done"
    /\ \E i \in DOMAIN df_pass : df_consistent[i] # df_pass[i]
    /\ \E i \in DOMAIN df_pass :
           /\ df_pass[i].L_FOOT # df_pass[i].R_FOOT
           /\ target_side_value(direction_pass,
                  [c \in 1..3 |-> 2 * df_pass[i].HEAD[c]
                      - (df_pass[i].L_FOOT[c] + df_pass[i].R_FOOT[c])],
                  [c \in 1..3 |-> df_pass[i].L_FOOT[c] - df_pass[i].R_FOOT[c]])
                  = 0

\* -direction_motion.
Negated(direction) == [c \in 1..3 |-> 0 - direction[c]]

\* target_side(direction, head - mean_foot, foot_l - mean_foot) of a row,
\* both vectors times two.
SideOfRow(row, direction) ==
    target_side(direction,
                [c \in 1..3 |-> 2 * row.HEAD[c] - (row.L_FOOT[c] + row.R_FOOT[c])],
                [c \in 1..3 |-> 2 * row.L_FOOT[c] - (row.L_FOOT[c] + row.R_FOOT[c])])

\* verify_sides_pass has run on df_pass.
SidesVerified == side_pc \in {"enforce_consistency", "verify_again",
                              "enforce_again", "done"}

\* C21: verify_sides returns true exactly when target_side(direction,
\* head - mean_foot, foot_l - mean_foot) is 'left' or 'straight'; when that
\* side is not 'straight', swapping foot_l with foot_r inverts the verdict,
\* negating direction_motion inverts it, and doing both restores it.
C21_VerifySidesInversions ==
    SidesVerified =>
        \A i \in DOMAIN df_pass :
            LET row == df_pass[i]
                side == SideOfRow(row, direction_pass)
                verdict == verified_sides[i]
            IN  /\ verdict <=> side \in {"left", "straight"}
                /\ side # "straight" =>
                       /\ verify_sides(row.R_FOOT, row.L_FOOT, row.HEAD,
                                       direction_pass) = ~verdict
                       /\ verify_sides(row.L_FOOT, row.R_FOOT, row.HEAD,
                                       Negated(direction_pass)) = ~verdict
                       /\ verify_sides(row.R_FOOT, row.L_FOOT, row.HEAD,
                                       Negated(direction_pass)) = verdict

\* A pass with a frame seen as 'left', a frame seen as 'right' and verified
\* once its feet are swapped, or a frame seen as 'straight' next to one that
\* is not.
C21_Witness ==
    /\ SidesVerified
    /\ \E i, j \in DOMAIN df_pass :
           /\ SideOfRow(df_pass[i], direction_pass) = "right"
           /\ ~verified_sides[i]
           /\ verify_sides(df_pass[i].R_FOOT, df_pass[i].L_FOOT,
                           df_pass[i].HEAD, direction_pass)
           /\ SideOfRow(df_pass[j], direction_pass) \in {"left", "straight"}
           /\ verified_sides[j]

\* ============================================================ get_population
\* Largest number of body parts of a frame series.
MaxParts == 2

\* pop_list and label_list zipped: the hypotheses of the body parts in the
\* order of the series, each with the label of its part.  zip stops at the
\* shorter of frame_series and part_labels.
PairList(frame_series_, part_labels_) ==
    Flatten([k \in 1..Min({Len(frame_series_), Len(part_labels_)}) |->
                [c \in 1..Len(frame_series_[k]) |->
                    [point |-> frame_series_[k][c],
                     label |-> part_labels_[k]]]])

RECURSIVE SortingOrders(_, _)
\* np.argsort(labels): the default sort is not stable, so the result is any
\* order of the indices in which the labels ascend.
SortingOrders(label_list, remaining) ==
    IF remaining = {} THEN {<< >>}
    ELSE LET low == Min({label_list[i] : i \in remaining})
         IN  UNION {{<< i >> \o rest :
                        rest \in SortingOrders(label_list, remaining \ {i})} :
                    i \in {j \in remaining : label_list[j] = low}}

\* get_population in which the sorting is applied to the labels only.
get_population_labels(frame_series_, part_labels_, sort_index_) ==
    LET pairs == PairList(frame_series_, part_labels_)
    IN  [population |-> ToArray([i \in DOMAIN pairs |-> pairs[i].point]),
         labels |-> ToArray([i \in DOMAIN sort_index_ |->
                                pairs[sort_index_[i]].label])]

\* get_population, given the result sort_index of np.argsort.
get_population(frame_series_, part_labels_, sort_index_) ==
    LET pairs == PairList(frame_series_, part_labels_)
    IN  [population |-> ToArray([i \in DOMAIN sort_index_ |->
                                    pairs[sort_index_[i]].point]),
         labels |-> ToArray([i \in DOMAIN sort_index_ |->
                                pairs[sort_index_[i]].label])]

\* The points of the hypotheses of a frame series.
PartPoints == { <<0, 0, 0>>, <<3, 0, 0>> }

\* The labels of the body parts: the head, and two further part types.
PartLabels == {0, 1, 5}

\* The hypotheses of one body part: none, one or two points.
PartHypotheses ==
    {<< >>} \cup {<< p >> : p \in PartPoints}
        \cup {<< p, q >> : p \in PartPoints, q \in PartPoints}

\* get_population is called with the hypotheses of 1..MaxParts body parts and
\* one label per part (several parts may share a label, as L_FOOT and
\* R_FOOT do).
InitGetPopulation ==
    /\ \E n \in 1..MaxParts :
          /\ frame_series \in [1..n -> PartHypotheses]
          /\ part_labels \in [1..n -> PartLabels]
    /\ sorted_population = << >>
    /\ sorted_labels = << >>
    /\ pop_pc = "get_population"
    /\ IdleFrame
    /\ IdleLengths
    /\ IdleSides
    /\ IdleParallel
    /\ IdleMain
    /\ IdleSpheres
    /\ IdleCluster

GetPopulation ==
    /\ pop_pc = "get_population"
    /\ LET pairs == PairList(frame_series, part_labels)
       IN  \E sort_index \in
                   SortingOrders([i \in DOMAIN pairs |-> pairs[i].label],
                                 DOMAIN pairs) :
               LET gp == get_population(frame_series, part_labels, sort_index)
               IN  /\ sorted_population' = gp.population
                   /\ sorted_labels' = gp.labels
    /\ pop_pc' = "done"
    /\ UNCHANGED << frame_series, part_labels >>
    /\ UNCHANGED not_getpop_vars

NextGetPopulation == GetPopulation

SpecGetPopulation == InitGetPopulation /\ [][NextGetPopulation]_vars

\* ------------------------------------------------ claims, get_population
\* The number of hypotheses at point p of a body part of label l.
InputCount(p, l) ==
    Cardinality({kc \in {<< k, c >> : k \in DOMAIN frame_series, c \in 1..2} :
                    /\ kc[2] \in DOMAIN frame_series[kc[1]]
                    /\ frame_series[kc[1]][kc[2]] = p
                    /\ part_labels[kc[1]] = l})

\* The number of rows of the returned population at point p with label l.
OutputCount(p, l) ==
    Cardinality({i \in DOMAIN sorted_population :
                    sorted_population[i] = p /\ sorted_labels[i] = l})

\* C15: get_population returns the labels in non-decreasing order, and the
\* returned (point, label) pairs are a permutation of the input pairs: every
\* hypothesis appears exactly once, with the label of its body part.
C15_PopulationSortedPermutation ==
    pop_pc = "done" =>
        /\ DOMAIN sorted_labels = DOMAIN sorted_population
        /\ \A i \in DOMAIN sorted_labels :
               (i + 1) \in DOMAIN sorted_labels =>
                   sorted_labels[i] <= sorted_labels[i + 1]
        /\ \A p \in PartPoints, l \in PartLabels :
               OutputCount(p, l) = InputCount(p, l)

\* The parts come in descending label order, two parts hold different
\* points, and the sorting moved a hypothesis.
C15_Witness ==
    /\ pop_pc = "done"
    /\ Len(part_labels) = 2
    /\ part_labels[1] > part_labels[2]
    /\ Len(frame_series[1]) = 2
    /\ Len(frame_series[2]) >= 1
    /\ frame_series[1][1] # frame_series[2][1]
    /\ sorted_population[0] = frame_series[2][1]

\* ===================================================== frames in parallel
\* process_frame as one function: the calls of its body one after another.
process_frame(population_, labels_, label_adj_list_, radii_) ==
    LET cons == only_consecutive_labels(label_adj_list_)
        sp == pop_shortest_paths(population_, labels_, cons)
        ptf == paths_to_foot(sp.prev, sp.dist, labels_)
        gsm == get_score_matrix(population_, labels_, label_adj_list_)
        filtered == filter_by_path(gsm.score_matrix, ptf.path_matrix,
                                   label_adj_list_)
        sbf == select_best_feet(gsm.dist_matrix, filtered, ptf.path_matrix,
                                radii_)
        ftp == foot_to_pop(population_, ptf.path_matrix, ptf.path_dist,
                           sbf.foot_1, sbf.foot_2)
    IN  IF ~ptf.ok
        THEN [result |-> "PATH_BROKEN", pop_1 |-> << >>, pop_2 |-> << >>]
        ELSE IF ~sbf.ok
        THEN [result |-> "ValueError", pop_1 |-> << >>, pop_2 |-> << >>]
        ELSE [result |-> "SKELETON_PAIR", pop_1 |-> ftp.pop_1,
              pop_2 |-> ftp.pop_2]

\* only_consecutive_labels emptying the entries of label_adj_list itself:
\* the argument after the call is the consecutive-only list.
ConsecutiveLabelsArgument_pruned(label_adj_list_) ==
    only_consecutive_labels(label_adj_list_)

\* The argument label_adj_list after only_consecutive_labels: the function
\* fills a new dict {k: {} for k in label_adj_list} and only reads its
\* argument.
ConsecutiveLabelsArgument(label_adj_list_) == label_adj_list_

\* The argument population after foot_to_pop: population[path_1, :] indexes
\* with an array and so gives a copy; the head position is written into the
\* copies only.
FootToPopArgument(pop, path_matrix_, path_dist_, foot_num_1, foot_num_2) == pop

\* The workers that run process_frame, each on a frame of its own.
Workers == {"w1", "w2"}

\* The frames of the workers: a head at the origin, one candidate of part
\* type 1 and two feet.
WorkerFrames ==
    {[population |-> pop, labels |-> << 0, 1, 2, 2 >>] :
        pop \in {q \in [1..4 -> Points] : q[1] = << 0, 0, 0 >>}}

\* A list indexed 1..n as the arrays of a frame, indexed 0..n-1.
FrameOf(f) == [population |-> ToArray(f.population), labels |-> ToArray(f.labels)]

\* The local variables of process_frame before its first statement.
NoLocals ==
    [cons_label_adj_list |-> << >>, prev |-> << >>, dist |-> << >>,
     path_matrix |-> << >>, path_dist |-> << >>, score_matrix |-> << >>,
     dist_matrix |-> << >>, filtered_score_matrix |-> << >>,
     foot_1 |-> NONE, foot_2 |-> NONE, pop_1 |-> << >>, pop_2 |-> << >>,
     result |-> "running"]

\* Every worker is given a frame; all are given the same label_adj_list and
\* radii objects.
InitParallel ==
    /\ par_adj \in AdjChoicesOf(3)
    /\ par_radii \in RadiiChoices
    /\ par_frame \in [Workers -> {FrameOf(f) : f \in WorkerFrames}]
    /\ par_pc = [w \in Workers |-> "pop_shortest_paths"]
    /\ par_loc = [w \in Workers |-> NoLocals]
    /\ par_given = [label_adj_list |-> par_adj, radii |-> par_radii,
                    frame |-> par_frame]
    /\ IdleFrame
    /\ IdleLengths
    /\ IdleSides
    /\ IdleGetPopulation
    /\ IdleMain
    /\ IdleSpheres
    /\ IdleCluster

ParPopShortestPaths(w) ==
    /\ par_pc[w] = "pop_shortest_paths"
    /\ LET cons == only_consecutive_labels(par_adj)
           sp == pop_shortest_paths(par_frame[w].population,
                                    par_frame[w].labels, cons)
       IN  par_loc' = [par_loc EXCEPT ![w].cons_label_adj_list = cons,
                                      ![w].prev = sp.prev,
                                      ![w].dist = sp.dist]
    /\ par_adj' = ConsecutiveLabelsArgument(par_adj)
    /\ par_pc' = [par_pc EXCEPT ![w] = "paths_to_foot"]
    /\ UNCHANGED << par_radii, par_frame, par_given >>
    /\ UNCHANGED not_par_vars

ParPathsToFoot(w) ==
    /\ par_pc[w] = "paths_to_foot"
    /\ LET ptf == paths_to_foot(par_loc[w].prev, par_loc[w].dist,
                                par_frame[w].labels)
       IN  /\ par_loc' = [par_loc EXCEPT
                             ![w].path_matrix = ptf.path_matrix,
                             ![w].path_dist = ptf.path_dist,
                             ![w].result = IF ptf.ok THEN @ ELSE "PATH_BROKEN"]
           /\ par_pc' = [par_pc EXCEPT
                            ![w] = IF ptf.ok THEN "get_score_matrix"
                                   ELSE "failed"]
    /\ UNCHANGED << par_adj, par_radii, par_frame, par_given >>
    /\ UNCHANGED not_par_vars

ParGetScoreMatrix(w) ==
    /\ par_pc[w] = "get_score_matrix"
    /\ LET gsm == get_score_matrix(par_frame[w].population,
                                   par_frame[w].labels, par_adj)
       IN  par_loc' = [par_loc EXCEPT ![w].score_matrix = gsm.score_matrix,
                                      ![w].dist_matrix = gsm.dist_matrix]
    /\ par_pc' = [par_pc EXCEPT ![w] = "filter_by_path"]
    /\ UNCHANGED << par_adj, par_radii, par_frame, par_given >>
    /\ UNCHANGED not_par_vars

ParFilterByPath(w) ==
    /\ par_pc[w] = "filter_by_path"
    /\ par_loc' = [par_loc EXCEPT ![w].filtered_score_matrix =
                      filter_by_path(par_loc[w].score_matrix,
                                     par_loc[w].path_matrix, par_adj)]
    /\ par_pc' = [par_pc EXCEPT ![w] = "select_best_feet"]
    /\ UNCHANGED << par_adj, par_radii, par_frame, par_given >>
    /\ UNCHANGED not_par_vars

ParSelectBestFeet(w) ==
    /\ par_pc[w] = "select_best_feet"
    /\ LET sbf == select_best_feet(par_loc[w].dist_matrix,
                                   par_loc[w].filtered_score_matrix,
                                   par_loc[w].path_matrix, par_radii)
       IN  /\ par_loc' = [par_loc EXCEPT
                             ![w].foot_1 = sbf.foot_1,
                             ![w].foot_2 = sbf.foot_2,
                             ![w].result = IF sbf.ok THEN @ ELSE "ValueError"]
           /\ par_pc' = [par_pc EXCEPT
                            ![w] = IF sbf.ok THEN "foot_to_pop" ELSE "failed"]
    /\ UNCHANGED << par_adj, par_radii, par_frame, par_given >>
    /\ UNCHANGED not_par_vars

ParFootToPop(w) ==
    /\ par_pc[w] = "foot_to_pop"
    /\ LET ftp == foot_to_pop(par_frame[w].population, par_loc[w].path_matrix,
                              par_loc[w].path_dist, par_loc[w].foot_1,
                              par_loc[w].foot_2)
       IN  par_loc' = [par_loc EXCEPT ![w].pop_1 = ftp.pop_1,
                                      ![w].pop_2 = ftp.pop_2,
                                      ![w].result = "SKELETON_PAIR"]
    /\ par_frame' = [par_frame EXCEPT ![w].population =
                        FootToPopArgument(par_frame[w].population,
                                          par_loc[w].path_matrix,
                                          par_loc[w].path_dist,
                                          par_loc[w].foot_1,
                                          par_loc[w].foot_2)]
    /\ par_pc' = [par_pc EXCEPT ![w] = "done"]
    /\ UNCHANGED << par_adj, par_radii, par_given >>
    /\ UNCHANGED not_par_vars

\* Any worker takes the next step of its process_frame.
NextParallel ==
    \E w \in Workers :
        \/ ParPopShortestPaths(w)
        \/ ParPathsToFoot(w)
        \/ ParGetScoreMatrix(w)
        \/ ParFilterByPath(w)
        \/ ParSelectBestFeet(w)
        \/ ParFootToPop(w)

SpecParallel == InitParallel /\ [][NextParallel]_vars

\* ----------------------------------------------- claims, frames in parallel
\* C16: process_frame leaves population, labels, label_adj_list and radii as
\* they were passed, and under every interleaving of the workers each frame
\* ends with the (pop_1, pop_2) that process_frame gives when it is run
\* alone on that frame.
C16_ParallelFramesAsSequential ==
    /\ par_adj = par_given.label_adj_list
    /\ par_radii = par_given.radii
    /\ par_frame = par_given.frame
    /\ \A w \in DOMAIN par_pc :
           par_pc[w] \in {"done", "failed"} =>
               LET alone == process_frame(par_given.frame[w].population,
                                          par_given.frame[w].labels,
                                          par_given.label_adj_list,
                                          par_given.radii)
               IN  /\ par_loc[w].result = alone.result
                   /\ par_loc[w].pop_1 = alone.pop_1
                   /\ par_loc[w].pop_2 = alone.pop_2

\* One worker has returned its skeletons while the other, on a different
\* frame and given a list with a non-consecutive connection, is in the
\* middle of its pipeline.
C16_Witness ==
    /\ par_pc # << >>
    /\ par_pc["w1"] = "done"
    /\ par_pc["w2"] = "get_score_matrix"
    /\ par_frame["w1"] # par_frame["w2"]
    /\ par_loc["w1"].pop_1 # par_loc["w1"].pop_2
    /\ InAdj(par_adj, 0, 2)

\* ============================================================== run_all_main
\* Largest number of frames, and of walking passes, of a trial.
MaxTrial == 4

\* main() with select_proposals called before estimate_lengths.
MainCalls_select_first ==
    << "select_proposals", "estimate_lengths", "label_passes",
       "calc_gait_params" >>

\* The calls of main(), in the order of its statements.
MainCalls ==
    << "estimate_lengths", "select_proposals", "label_passes",
       "calc_gait_params" >>

\* The script whose main() is called next; none after the last call.
NextCall == IF main_k \in DOMAIN MainCalls THEN MainCalls[main_k] ELSE "none"

\* main_runs when main() of a script is entered: at its first step.
Entered(script, first_step) ==
    IF first_step THEN [main_runs EXCEPT ![script] = @ + 1] ELSE main_runs

InitMain ==
    /\ main_k = 1
    /\ main_trial \in [frames : 1..MaxTrial, passes : 1..MaxTrial]
    /\ main_runs = [c \in {MainCalls[k] : k \in DOMAIN MainCalls} |-> 0]
    /\ lengths_written = 0
    /\ frames_selected = 0
    /\ passes_labelled = 0
    /\ params_computed = FALSE
    /\ IdleFrame
    /\ IdleLengths
    /\ IdleSides
    /\ IdleGetPopulation
    /\ IdleParallel
    /\ IdleSpheres
    /\ IdleCluster

\* estimate_lengths.main(): the length vector of the trial is computed.
MainEstimateLengths ==
    /\ NextCall = "estimate_lengths"
    /\ main_runs' = Entered("estimate_lengths", TRUE)
    /\ lengths_written' = lengths_written + 1
    /\ main_k' = main_k + 1
    /\ UNCHANGED << main_trial, frames_selected, passes_labelled,
                    params_computed >>
    /\ UNCHANGED not_main_vars

\* select_proposals.main(), one frame of its loop: the per-frame pipeline
\* selects the proposals of the next frame with the length vector; the call
\* returns after the last frame.
MainSelectProposals ==
    /\ NextCall = "select_proposals"
    /\ main_runs' = Entered("select_proposals", frames_selected = 0)
    /\ frames_selected' = frames_selected + 1
    /\ main_k' = IF frames_selected' = main_trial.frames
                 THEN main_k + 1 ELSE main_k
    /\ UNCHANGED << main_trial, lengths_written, passes_labelled,
                    params_computed >>
    /\ UNCHANGED not_main_vars

\* label_passes.main(), one walking pass of its loop: the sides of the feet
\* of the next pass are labelled; the call returns after the last pass.
MainLabelPasses ==
    /\ NextCall = "label_passes"
    /\ main_runs' = Entered("label_passes", passes_labelled = 0)
    /\ passes_labelled' = passes_labelled + 1
    /\ main_k' = IF passes_labelled' = main_trial.passes
                 THEN main_k + 1 ELSE main_k
    /\ UNCHANGED << main_trial, lengths_written, frames_selected,
                    params_computed >>
    /\ UNCHANGED not_main_vars

\* calc_gait_params.main().
MainCalcGaitParams ==
    /\ NextCall = "calc_gait_params"
    /\ main_runs' = Entered("calc_gait_params", TRUE)
    /\ params_computed' = TRUE
    /\ main_k' = main_k + 1
    /\ UNCHANGED << main_trial, lengths_written, frames_selected,
                    passes_labelled >>
    /\ UNCHANGED not_main_vars

NextMain ==
    \/ MainEstimateLengths
    \/ MainSelectProposals
    \/ MainLabelPasses
    \/ MainCalcGaitParams

SpecMain == InitMain /\ [][NextMain]_vars

\* --------------------------------------------------- claims, run_all_main
\* main() has returned.
MainReturned == main_k = Len(MainCalls) + 1

\* C17: the phases run once each and in the order length estimation,
\* proposal selection, pass labelling, gait parameters: no frame is selected
\* before the length vector has been computed, the length vector is computed
\* once and not again after selection has started, side labelling starts
\* only when every frame has been selected, the gait parameters are computed
\* only when every pass has been labelled, and when main() returns every
\* script has run exactly once.
C17_PhasesOnceInOrder ==
    main_k # 0 =>
        /\ \A c \in DOMAIN main_runs : main_runs[c] <= 1
        /\ lengths_written <= 1
        /\ frames_selected > 0 => lengths_written = 1
        /\ passes_labelled > 0 => frames_selected = main_trial.frames
        /\ params_computed => passes_labelled = main_trial.passes
        /\ MainReturned =>
               /\ \A c \in DOMAIN main_runs : main_runs[c] = 1
               /\ lengths_written = 1
               /\ params_computed

\* main() has returned from a trial of several frames and several passes.
C17_Witness ==
    /\ MainReturned
    /\ main_trial.frames > 1
    /\ main_trial.passes > 1
    /\ frames_selected = main_trial.frames
    /\ passes_labelled = main_trial.passes

\* ============================================================ inside_spheres
\* Largest number of points of a distance matrix passed to inside_spheres.
MaxPoints == 3

\* cdist(population, population).
cdist(pop) ==
    [ij \in (DOMAIN pop) \X (DOMAIN pop) |-> distance(pop[ij[1]], pop[ij[2]])]

\* The radii of the spheres.
SphereRadii == {0, 3, 4}

\* The lists of one or two sphere centres among n points, as arrays.
SphereCentres(n) ==
    {ToArray(<< a >>) : a \in 0..(n - 1)}
        \cup {ToArray(<< a, b >>) : a, b \in 0..(n - 1)}

\* inside_spheres is called with the distance matrix of 1..MaxPoints points,
\* sphere centres among them and a radius r >= 0.
InitSpheres ==
    /\ \E n \in 1..MaxPoints :
          \E pop \in [0..(n - 1) -> Points], point_nums \in SphereCentres(n),
             r \in SphereRadii :
              sphere_args = [dist_matrix |-> cdist(pop),
                             point_nums |-> point_nums, r |-> r]
    /\ in_spheres_out = << >>
    /\ sphere_pc = "inside_spheres"
    /\ IdleFrame
    /\ IdleLengths
    /\ IdleSides
    /\ IdleGetPopulation
    /\ IdleParallel
    /\ IdleMain
    /\ IdleCluster

InsideSpheres ==
    /\ sphere_pc = "inside_spheres"
    /\ in_spheres_out' = inside_spheres(sphere_args.dist_matrix,
                                        sphere_args.point_nums, sphere_args.r)
    /\ sphere_pc' = "done"
    /\ UNCHANGED sphere_args
    /\ UNCHANGED not_sphere_vars

NextSpheres == InsideSpheres

SpecSpheres == InitSpheres /\ [][NextSpheres]_vars

\* -------------------------------------------------- claims, inside_spheres
\* The points of the distance matrix of the call.
SpherePoints == {ij[1] : ij \in DOMAIN sphere_args.dist_matrix}

\* C20: inside_spheres(D, path, r) returns a boolean vector B over the N
\* points with B[i] true exactly when some j of path has D[i, j] <= r; with
\* r >= 0 and the zero diagonal of a distance matrix every node of the path
\* is marked true.
C20_InsideSpheres ==
    sphere_pc = "done" =>
        LET D == sphere_args.dist_matrix
            path == sphere_args.point_nums
            B == in_spheres_out
        IN  /\ DOMAIN B = SpherePoints
            /\ \A i \in SpherePoints :
                   /\ B[i] \in BOOLEAN
                   /\ B[i] <=> \E c \in DOMAIN path :
                                  D[<< i, path[c] >>] <= sphere_args.r
            /\ \A c \in DOMAIN path : B[path[c]]

\* A sphere of radius 3 among three points: a point off the path is inside
\* and another point is outside.
C20_Witness ==
    /\ sphere_pc = "done"
    /\ sphere_args.r = 3
    /\ \E i \in SpherePoints :
           /\ \A c \in DOMAIN sphere_args.point_nums :
                  sphere_args.point_nums[c] # i
           /\ in_spheres_out[i]
    /\ \E i \in SpherePoints : ~in_spheres_out[i]

\* ================================================================ dbscan_st
\* Largest number of points passed to dbscan_st.
MaxClusterPoints == 7

\* The positions of the points: points on a line, so that cdist(points,
\* points) is the absolute difference of two positions.
Positions == 0..8

\* cdist(points, points) of one-dimensional points, as a matrix of rows.
cdist_line(points_) ==
    [i \in DOMAIN points_ |->
        [j \in DOMAIN points_ |-> Abs(points_[i] - points_[j])]]

\* region_query with a strict comparison.
region_query_strict(dist_matrix_, eps_, idx_pt_) ==
    {j \in DOMAIN dist_matrix_[idx_pt_] : dist_matrix_[idx_pt_][j] < eps_}

\* region_query: set(np.nonzero(dist_matrix[idx_pt] <= eps)[0]).
region_query(dist_matrix_, eps_, idx_pt_) ==
    {j \in DOMAIN dist_matrix_[idx_pt_] : dist_matrix_[idx_pt_][j] <= eps_}

region_query_st(D_spatial_, D_temporal_, eps_spatial_, eps_temporal_, idx_pt_) ==
    LET set_neighbours_spatial == region_query(D_spatial_, eps_spatial_, idx_pt_)
        set_neighbours_temporal ==
            region_query(D_temporal_, eps_temporal_, idx_pt_)
    IN  set_neighbours_spatial \cap set_neighbours_temporal

\* for i in set_neighbours: the elements of a set in the order of iteration.
\* The order of a Python set is not fixed by the language; a run iterates
\* every set in ascending or every set in descending order.
SetOrders == {"ascending", "descending"}

Iterate(set_, order_) ==
    IF order_ = "ascending" THEN AscSeq(set_) ELSE Reverse(AscSeq(set_))

\* One pass of the while loop of grow_cluster_st in which a point that
\* carries the label of another cluster is given the current label.
grow_cluster_st_while_relabel(D_spatial_, D_temporal_, labels_, queue_, label_cluster_, eps_spatial_, eps_temporal_, min_pts_, order_) ==
    LET idx_next == Head(queue_)
        label_next == labels_[idx_next]
        set_neighbours_next ==
            region_query_st(D_spatial_, D_temporal_, eps_spatial_,
                            eps_temporal_, idx_next)
        is_core == Cardinality(set_neighbours_next) >= min_pts_
    IN  IF label_next = 0
        THEN [labels |-> [labels_ EXCEPT ![idx_next] = label_cluster_],
              queue |-> IF is_core
                        THEN Tail(queue_) \o Iterate(set_neighbours_next, order_)
                        ELSE Tail(queue_),
              put |-> is_core]
        ELSE [labels |-> [labels_ EXCEPT ![idx_next] = label_cluster_],
              queue |-> Tail(queue_), put |-> FALSE]

\* One pass of the while loop of grow_cluster_st: the next point leaves the
\* queue; noise becomes a border point, an unclaimed point joins the cluster
\* and, when it is a core point, its neighbourhood is put on the queue.  put
\* tells whether a neighbourhood was put on the queue.
grow_cluster_st_while(D_spatial_, D_temporal_, labels_, queue_, label_cluster_, eps_spatial_, eps_temporal_, min_pts_, order_) ==
    LET idx_next == Head(queue_)
        label_next == labels_[idx_next]
        set_neighbours_next ==
            region_query_st(D_spatial_, D_temporal_, eps_spatial_,
                            eps_temporal_, idx_next)
        is_core == Cardinality(set_neighbours_next) >= min_pts_
    IN  IF label_next = -1
        THEN [labels |-> [labels_ EXCEPT ![idx_next] = label_cluster_],
              queue |-> Tail(queue_), put |-> FALSE]
        ELSE IF label_next = 0
        THEN [labels |-> [labels_ EXCEPT ![idx_next] = label_cluster_],
              queue |-> IF is_core
                        THEN Tail(queue_) \o Iterate(set_neighbours_next, order_)
                        ELSE Tail(queue_),
              put |-> is_core]
        ELSE [labels |-> labels_, queue |-> Tail(queue_), put |-> FALSE]

\* The lists of up to MaxClusterPoints distinct positions, in ascending
\* order, as arrays.
PointArrays ==
    {ToArray(AscSeq(S)) :
        S \in {T \in SUBSET Positions :
                  T # {} /\ Cardinality(T) <= MaxClusterPoints}}

\* The times of n points: all zero (times is None), or 0 and 1 in turn.
TimeArrays(n) ==
    {[i \in 0..(n - 1) |-> 0], [i \in 0..(n - 1) |-> i % 2]}

EpsSpatialChoices == {1, 2}

EpsTemporalChoices == {0}

MinPtsChoices == {2, 3, 4}

n_points == Cardinality(DOMAIN st_points)

\* dbscan_st has not been called yet.
InitCluster ==
    /\ st_points = << >>
    /\ st_times = << >>
    /\ eps_spatial = 0
    /\ eps_temporal = 0
    /\ min_pts = 0
    /\ set_order = "idle"
    /\ D_spatial = << >>
    /\ D_temporal = << >>
    /\ cluster_labels = << >>
    /\ label_cluster = 0
    /\ idx_pt = 0
    /\ queue_search = << >>
    /\ n_puts = << >>
    /\ cluster_pc = "call"
    /\ IdleFrame
    /\ IdleLengths
    /\ IdleSides
    /\ IdleGetPopulation
    /\ IdleParallel
    /\ IdleMain
    /\ IdleSpheres

\* dbscan_st is called: the arguments are bound, labels is all zero and
\* label_cluster is 0.
DbscanCall ==
    /\ cluster_pc = "call"
    /\ st_points' \in PointArrays
    /\ st_times' \in TimeArrays(Cardinality(DOMAIN st_points'))
    /\ eps_spatial' \in EpsSpatialChoices
    /\ eps_temporal' \in EpsTemporalChoices
    /\ min_pts' \in MinPtsChoices
    /\ set_order' \in SetOrders
    /\ D_spatial' = cdist_line(st_points')
    /\ D_temporal' = cdist_line(st_times')
    /\ cluster_labels' = [i \in DOMAIN st_points' |-> 0]
    /\ label_cluster' = 0
    /\ idx_pt' = 0
    /\ queue_search' = << >>
    /\ n_puts' = [i \in DOMAIN st_points' |-> 0]
    /\ cluster_pc' = "for"
    /\ UNCHANGED not_cluster_vars

\* The neighbourhood of the point idx_pt of the for loop.
set_neighbours ==
    region_query_st(D_spatial, D_temporal, eps_spatial, eps_temporal, idx_pt)

\* The for loop meets a point that has a label: continue.
DbscanContinue ==
    /\ cluster_pc = "for"
    /\ idx_pt < n_points
    /\ cluster_labels[idx_pt] # 0
    /\ idx_pt' = idx_pt + 1
    /\ UNCHANGED << cluster_fixed, cluster_labels, label_cluster,
                    queue_search, n_puts, cluster_pc >>
    /\ UNCHANGED not_cluster_vars

\* The neighbourhood of the point is smaller than min_pts: noise.
DbscanNoise ==
    /\ cluster_pc = "for"
    /\ idx_pt < n_points
    /\ cluster_labels[idx_pt] = 0
    /\ Cardinality(set_neighbours) < min_pts
    /\ cluster_labels' = [cluster_labels EXCEPT ![idx_pt] = -1]
    /\ idx_pt' = idx_pt + 1
    /\ UNCHANGED << cluster_fixed, label_cluster, queue_search, n_puts,
                    cluster_pc >>
    /\ UNCHANGED not_cluster_vars

\* The point is the seed of a new cluster: grow_cluster_st is called and
\* puts the neighbourhood of the seed on its queue.
DbscanSeed ==
    /\ cluster_pc = "for"
    /\ idx_pt < n_points
    /\ cluster_labels[idx_pt] = 0
    /\ Cardinality(set_neighbours) >= min_pts
    /\ label_cluster' = label_cluster + 1
    /\ cluster_labels' = [cluster_labels EXCEPT ![idx_pt] = label_cluster + 1]
    /\ queue_search' = Iterate(set_neighbours, set_order)
    /\ n_puts' = [n_puts EXCEPT ![idx_pt] = @ + 1]
    /\ cluster_pc' = "grow"
    /\ UNCHANGED << cluster_fixed, idx_pt >>
    /\ UNCHANGED not_cluster_vars

\* One pass of the while loop of grow_cluster_st.
GrowClusterWhile ==
    /\ cluster_pc = "grow"
    /\ queue_search # << >>
    /\ \E pass \in {grow_cluster_st_while(D_spatial, D_temporal,
                       cluster_labels, queue_search, label_cluster,
                       eps_spatial, eps_temporal, min_pts, set_order)} :
           /\ cluster_labels' = pass.labels
           /\ queue_search' = pass.queue
           /\ n_puts' = IF pass.put
                        THEN [n_puts EXCEPT ![Head(queue_search)] = @ + 1]
                        ELSE n_puts
    /\ UNCHANGED << cluster_fixed, label_cluster, idx_pt, cluster_pc >>
    /\ UNCHANGED not_cluster_vars

\* The queue is empty: grow_cluster_st returns and the for loop goes on.
GrowClusterReturn ==
    /\ cluster_pc = "grow"
    /\ queue_search = << >>
    /\ idx_pt' = idx_pt + 1
    /\ cluster_pc' = "for"
    /\ UNCHANGED << cluster_fixed, cluster_labels, label_cluster,
                    queue_search, n_puts >>
    /\ UNCHANGED not_cluster_vars

\* The for loop is over: labels[labels != -1] -= 1, return labels.
DbscanReturn ==
    /\ cluster_pc = "for"
    /\ idx_pt = n_points
    /\ cluster_labels' = [i \in DOMAIN cluster_labels |->
                             IF cluster_labels[i] # -1
                             THEN cluster_labels[i] - 1
                             ELSE cluster_labels[i]]
    /\ cluster_pc' = "returned"
    /\ UNCHANGED << cluster_fixed, label_cluster, idx_pt, queue_search,
                    n_puts >>
    /\ UNCHANGED not_cluster_vars

\* The steps of dbscan_st once it is called.
RunCluster ==
    \/ DbscanContinue
    \/ DbscanNoise
    \/ DbscanSeed
    \/ GrowClusterWhile
    \/ GrowClusterReturn
    \/ DbscanReturn

NextCluster ==
    \/ DbscanCall
    \/ RunCluster

SpecCluster == InitCluster /\ [][NextCluster]_vars

\* dbscan_st runs its statements one after the other in one thread: once it
\* is called, a step that can be taken is taken.
FairSpecCluster == SpecCluster /\ WF_vars(RunCluster)

\* ------------------------------------------------------ claims, dbscan_st
\* The spatio-temporal neighbourhood of point i, itself included: the points
\* within eps_spatial in space and within eps_temporal in time.
Neighbourhood(i) ==
    {j \in DOMAIN st_points :
        /\ Abs(st_points[i] - st_points[j]) <= eps_spatial
        /\ Abs(st_times[i] - st_times[j]) <= eps_temporal}

\* A core point has at least min_pts points in its neighbourhood.
CorePoint(i) == Cardinality(Neighbourhood(i)) >= min_pts

\* C22: after dbscan_st returns no point is left unlabelled; a point has
\* label -1 exactly when its own neighbourhood has fewer than min_pts points
\* and it lies in the neighbourhood of no core point; every other point has
\* a cluster label in 0..C-1, C being the number of clusters created.
C22_DbscanLabels ==
    /\ (cluster_pc = "for" /\ idx_pt = n_points) =>
           \A i \in DOMAIN st_points : cluster_labels[i] # 0
    /\ cluster_pc = "returned" =>
           /\ DOMAIN cluster_labels = DOMAIN st_points
           /\ \A i \in DOMAIN st_points :
                  /\ cluster_labels[i] = -1 <=>
                         /\ ~CorePoint(i)
                         /\ ~\E j \in DOMAIN st_points :
                                CorePoint(j) /\ i \in Neighbourhood(j)
                  /\ cluster_labels[i] # -1 =>
                         cluster_labels[i] \in 0..(label_cluster - 1)

\* dbscan_st has returned two clusters or more, a noise point, and a border
\* point: a point of a cluster that is not a core point.
C22_Witness ==
    /\ cluster_pc = "returned"
    /\ label_cluster >= 2
    /\ \E i \in DOMAIN st_points : cluster_labels[i] = -1
    /\ \E i \in DOMAIN st_points : cluster_labels[i] >= 0 /\ ~CorePoint(i)

\* The neighbourhood of point i is put on the search queue in this step.
PutsNeighbourhood(i) == n_puts'[i] # n_puts[i]

====
